---- MODULE Spec2Model ----
(***************************************************************************)
(* RCord server core: the Store (server/storage.py), the Session Registry, *)
(* the Control Gateway and the Presence Monitor (server/main.py).          *)
(*                                                                         *)
(* The Store is one JSON blob that every operation reads, changes and      *)
(* writes back whole; it is the variable db, and each Storage method is an *)
(* operator from the blob read to [data |-> the blob on disk afterwards,   *)
(* ret |-> the value returned].  Timestamps are whole seconds of the UTC   *)
(* clock now.  A control connection is identified with its writer.         *)
(***************************************************************************)
EXTENDS Integers, Sequences, FiniteSets, TLC

\* ---------------------------------------------------------------- inputs
Users == {"alice", "bob"}
\* the users of the media relay: a room of three
MediaUsers == {"alice", "bob", "carol"}
\* the usernames in the ascending order sorted() gives them
UserOrder == <<"alice", "bob", "carol">>
Rooms == {"dev"}
RoomOrder == <<"dev">>
Kinds == {"text"}
Passwords == {"pw1", "pw2"}
Conns == {1, 2}
\* the media connections, and the control connections of the three users they bind to
MediaConns == {1, 2, 3}
\* no connection
NoConn == 0
\* a missing or empty JSON field (falsy in the handlers' "if not x" tests)
Missing == ""
\* Python None where a timestamp is expected
NoTime == -1
\* seconds the clock may advance in one step: around the heartbeat timeout where the
\* registry is examined, around the invite TTL where the invites are
SessionSteps == {1, 60}
StoreSteps == {1, 300}
\* clock advances in one behaviour
MaxTicks == 2

\* the longest history of a target that send_message is explored on
MaxMessages == 2

\* ------------------------------------------------------------- constants
INVITE_TTL == 300
HEARTBEAT_TIMEOUT == 60

\* ----------------------------------------------------------------- state
VARIABLES
    db,        \* the persisted blob: users, rooms, chats, messages, invites, status
    sessions,  \* ServerState.sessions: username -> control connection (writer)
    status,    \* ServerState.status: username -> [online, last_seen]
    conn,      \* per control connection: handler position, its local username, writer closed
    reply,     \* the last response line a handler wrote
    out,       \* the last request a control handler read: its connection, the lines written
    now,       \* the UTC clock, seconds
    ticks,     \* clock advances so far
    media_sessions,  \* ServerState.media_sessions: username -> media connection (writer)
    mconn,     \* per media connection: handler position, its local username, writer closed
    mout,      \* the last frame a media handler read: its connection, the lines written
    wire,      \* per control writer: paused by the transport, the lines written; per
               \* handler task: the drain it waits for; followed where sends are the subject
    disk       \* the database path and its temporary sibling, the Store's lock and callers;
               \* followed where the file itself is the subject, elsewhere db stands for it

mediavars == <<media_sessions, mconn, mout>>

vars == <<db, sessions, status, conn, reply, out, now, ticks, media_sessions, mconn, mout,
          disk, wire>>

\* --------------------------------------------------------------- helpers
EmptyMap == [x \in {} |-> x]

Rank(order, x) == CHOOSE i \in DOMAIN order : order[i] = x

\* dict.setdefault(k, v)
setdefault(f, k, v) == IF k \in DOMAIN f THEN f ELSE f @@ (k :> v)

\* dict[k] = v
put(f, k, v) == [x \in DOMAIN f \cup {k} |-> IF x = k THEN v ELSE f[x]]

\* x in list, for a list of usernames
InSeq(s, x) == \E i \in DOMAIN s : s[i] = x

RECURSIVE InsertSorted(_, _, _)
InsertSorted(order, s, x) ==
    IF s = <<>> THEN <<x>>
    ELSE IF Rank(order, x) < Rank(order, Head(s)) THEN <<x>> \o s
    ELSE IF x = Head(s) THEN s
    ELSE <<Head(s)>> \o InsertSorted(order, Tail(s), x)

RECURSIVE SortedSet(_, _)
\* sorted(set(list))
SortedSet(order, s) ==
    IF s = <<>> THEN <<>>
    ELSE InsertSorted(order, SortedSet(order, Tail(s)), Head(s))

\* chat_id_for: the two names sorted and joined with ":"; the id "a:b" is the pair <<a, b>>
chat_id_for(user_a, user_b) ==
    IF Rank(UserOrder, user_a) <= Rank(UserOrder, user_b)
    THEN <<user_a, user_b>> ELSE <<user_b, user_a>>

\* the chats of two different users
ChatIds == {chat_id_for(a, b) : a \in Users, b \in Users} \ {<<u, u>> : u \in Users}
\* a missing or empty "chat" field
NoChat == <<>>

\* Storage._default_data
default_data ==
    [users |-> EmptyMap, rooms |-> EmptyMap, chats |-> EmptyMap, messages |-> EmptyMap,
     invites |-> EmptyMap, status |-> EmptyMap]

EmptyBucket == [rooms |-> <<>>, chats |-> <<>>]

\* An invite entry is a dict {"room"|"chat": target, "invited_at": ts} or, in legacy
\* files, the bare target string: shape tells which.
DictInvite(target, t) == [shape |-> "dict", target |-> target, invited_at |-> t]

\* "target in invites[...]" with a string on the left: equal only to a bare-string entry
StrInList(s, target) == \E i \in DOMAIN s : s[i].shape = "str" /\ s[i].target = target

\* list.remove(target): drops the first entry equal to the string
RECURSIVE RemoveStr(_, _)
RemoveStr(s, target) ==
    IF s = <<>> THEN <<>>
    ELSE IF Head(s).shape = "str" /\ Head(s).target = target THEN Tail(s)
    ELSE <<Head(s)>> \o RemoveStr(Tail(s), target)

\* the loop of has_room_invite / has_chat_invite: an entry of either shape naming the target
HasEntry(s, target) == \E i \in DOMAIN s : s[i].target = target

Targets(s) == [i \in DOMAIN s |-> s[i].target]

\* ------------------------------------------------- Store (server/storage.py)
\* the bucket the read-only listings see (.get(username, {}).get(kind, []))
Bucket(data, username) ==
    IF username \in DOMAIN data.invites THEN data.invites[username] ELSE EmptyBucket

\* expiry at the TTL itself instead of after it
is_invite_expired_at_ttl(invite, t) ==
    IF invite.shape # "dict" THEN FALSE
    ELSE IF invite.invited_at = NoTime THEN FALSE
    ELSE t - invite.invited_at >= INVITE_TTL

\* Storage._is_invite_expired
is_invite_expired(invite, t) ==
    IF invite.shape # "dict" THEN FALSE
    ELSE IF invite.invited_at = NoTime THEN FALSE
    ELSE t - invite.invited_at > INVITE_TTL

Kept(s, t) == SelectSeq(s, LAMBDA i : ~is_invite_expired(i, t))
Dropped(s, t) == Targets(SelectSeq(s, LAMBDA i : is_invite_expired(i, t)))

\* Storage._remove_expired_invites: the user's bucket without its expired entries,
\* and the targets dropped
remove_expired_invites(data, username, t) ==
    LET users == setdefault(data.invites, username, EmptyBucket)
        invites == users[username]
    IN  [data |-> [data EXCEPT !.invites =
                      put(users, username,
                          [rooms |-> Kept(invites.rooms, t), chats |-> Kept(invites.chats, t)])],
         expired |-> [rooms |-> Dropped(invites.rooms, t), chats |-> Dropped(invites.chats, t)]]

AnyExpired(expired) == expired.rooms # <<>> \/ expired.chats # <<>>

\* Storage.set_status (last_seen is always given by the callers)
set_status(data, username, online, last_seen) ==
    [data EXCEPT !.status = put(@, username, [online |-> online, last_seen |-> last_seen])]

\* register_user writing the entry whether or not the name is taken
register_user_again(data, username, password, t) ==
    [data |-> [data EXCEPT !.users = put(@, username, [password |-> password, created_at |-> t]),
                           !.invites = setdefault(@, username, EmptyBucket),
                           !.status = put(@, username, [online |-> FALSE, last_seen |-> t])],
     ret |-> username \notin DOMAIN data.users]

\* Storage.register_user
register_user(data, username, password, t) ==
    IF username \in DOMAIN data.users THEN [data |-> data, ret |-> FALSE]
    ELSE [data |-> [data EXCEPT !.users = put(@, username, [password |-> password, created_at |-> t]),
                                !.invites = setdefault(@, username, EmptyBucket),
                                !.status = put(@, username, [online |-> FALSE, last_seen |-> t])],
          ret |-> TRUE]

\* Storage.validate_login
validate_login(data, username, password) ==
    username \in DOMAIN data.users /\ data.users[username].password = password

\* Storage.list_users (as a set; the callers only test membership)
list_users(data) == DOMAIN data.users

\* create_room writing the room whether or not the name is taken
create_room_again(data, room, owner, kind, t) ==
    [data |-> [data EXCEPT !.rooms = put(@, room, [members |-> <<owner>>, kind |-> kind,
                                                   created_at |-> t])],
     ret |-> room \notin DOMAIN data.rooms]

\* Storage.create_room
create_room(data, room, owner, kind, t) ==
    IF room \in DOMAIN data.rooms THEN [data |-> data, ret |-> FALSE]
    ELSE [data |-> [data EXCEPT !.rooms = put(@, room, [members |-> <<owner>>, kind |-> kind,
                                                        created_at |-> t])],
          ret |-> TRUE]

\* a membership test that only asks whether the room exists
room_has_member_any(data, room, username) == room \in DOMAIN data.rooms

\* Storage.room_has_member
room_has_member(data, room, username) ==
    room \in DOMAIN data.rooms /\ InSeq(data.rooms[room].members, username)

\* a participation test that only asks whether the chat exists
chat_has_member_any(data, chat_id, username) == chat_id \in DOMAIN data.chats

\* Storage.chat_has_member
chat_has_member(data, chat_id, username) ==
    chat_id \in DOMAIN data.chats /\ InSeq(data.chats[chat_id].participants, username)

\* add_room_member appending the user whether or not it is a member
add_room_member_twice(data, room, username, t) ==
    LET swept == remove_expired_invites(data, username, t)
        d1 == swept.data
    IN  IF room \notin DOMAIN d1.rooms
        THEN [data |-> IF AnyExpired(swept.expired) THEN d1 ELSE data, ret |-> FALSE]
        ELSE LET members == d1.rooms[room].members
                 joined == Append(members, username)
                 invites == d1.invites[username]
                 rooms == IF StrInList(invites.rooms, room)
                          THEN RemoveStr(invites.rooms, room) ELSE invites.rooms
             IN  [data |-> [d1 EXCEPT !.rooms[room].members = joined,
                                      !.invites[username].rooms = rooms],
                  ret |-> TRUE]

\* Storage.add_room_member
add_room_member(data, room, username, t) ==
    LET swept == remove_expired_invites(data, username, t)
        d1 == swept.data
    IN  IF room \notin DOMAIN d1.rooms
        THEN [data |-> IF AnyExpired(swept.expired) THEN d1 ELSE data, ret |-> FALSE]
        ELSE LET members == d1.rooms[room].members
                 joined == IF InSeq(members, username) THEN members ELSE Append(members, username)
                 invites == d1.invites[username]
                 rooms == IF StrInList(invites.rooms, room)
                          THEN RemoveStr(invites.rooms, room) ELSE invites.rooms
             IN  [data |-> [d1 EXCEPT !.rooms[room].members = joined,
                                      !.invites[username].rooms = rooms],
                  ret |-> TRUE]

\* the first entry the loops of invite_to_room / invite_to_chat stop at
FirstEntry(s, target) ==
    LET hits == {i \in DOMAIN s : s[i].target = target}
    IN  s[CHOOSE i \in hits : \A j \in hits : i <= j]

\* invite_to_room restamping a pending invite
invite_to_room_restamps(data, room, username, t) ==
    IF room \notin DOMAIN data.rooms THEN [data |-> data, ret |-> NoTime]
    ELSE LET users == setdefault(data.invites, username, EmptyBucket)
             invites == users[username]
         IN  [data |-> [data EXCEPT !.invites =
                          put(users, username,
                              [invites EXCEPT !.rooms =
                                   Append(SelectSeq(@, LAMBDA i : i.target # room),
                                          DictInvite(room, t))])],
              ret |-> t]

\* Storage.invite_to_room: ret is the invited_at returned, NoTime for None
invite_to_room(data, room, username, t) ==
    IF room \notin DOMAIN data.rooms THEN [data |-> data, ret |-> NoTime]
    ELSE LET users == setdefault(data.invites, username, EmptyBucket)
             invites == users[username]
         IN  IF HasEntry(invites.rooms, room)
             THEN [data |-> data,
                   ret |-> IF FirstEntry(invites.rooms, room).shape = "dict"
                           THEN FirstEntry(invites.rooms, room).invited_at ELSE NoTime]
             ELSE [data |-> [data EXCEPT !.invites =
                               put(users, username,
                                   [invites EXCEPT !.rooms = Append(@, DictInvite(room, t))])],
                   ret |-> t]

\* create_chat making the invitee a participant at once
create_chat_adds_both(data, user_a, user_b, kind) ==
    LET chat_id == chat_id_for(user_a, user_b)
    IN  [data |-> [data EXCEPT !.chats =
                     put(@, chat_id, [participants |-> <<user_a, user_b>>, kind |-> kind])],
         ret |-> chat_id]

\* Storage.create_chat
create_chat(data, user_a, user_b, kind) ==
    LET chat_id == chat_id_for(user_a, user_b)
    IN  IF chat_id \notin DOMAIN data.chats
        THEN [data |-> [data EXCEPT !.chats =
                          put(@, chat_id, [participants |-> <<user_a>>, kind |-> kind])],
              ret |-> chat_id]
        ELSE LET participants == data.chats[chat_id].participants
             IN  [data |-> [data EXCEPT !.chats[chat_id].participants =
                              IF InSeq(participants, user_a) THEN participants
                              ELSE Append(participants, user_a)],
                  ret |-> chat_id]

\* Storage.invite_to_chat
invite_to_chat(data, username, chat_id, t) ==
    IF chat_id \notin DOMAIN data.chats THEN [data |-> data, ret |-> NoTime]
    ELSE LET users == setdefault(data.invites, username, EmptyBucket)
             invites == users[username]
         IN  IF HasEntry(invites.chats, chat_id)
             THEN [data |-> data,
                   ret |-> IF FirstEntry(invites.chats, chat_id).shape = "dict"
                           THEN FirstEntry(invites.chats, chat_id).invited_at ELSE NoTime]
             ELSE [data |-> [data EXCEPT !.invites =
                               put(users, username,
                                   [invites EXCEPT !.chats = Append(@, DictInvite(chat_id, t))])],
                   ret |-> t]

\* Storage.accept_chat_invite: ret is <<accepted, expired>>
accept_chat_invite(data, username, chat_id, t) ==
    LET swept == remove_expired_invites(data, username, t)
        d1 == swept.data
    IN  IF InSeq(swept.expired.chats, chat_id)
        THEN [data |-> d1, ret |-> <<FALSE, TRUE>>]
        ELSE IF chat_id \notin DOMAIN d1.chats
        THEN [data |-> IF AnyExpired(swept.expired) THEN d1 ELSE data, ret |-> <<FALSE, FALSE>>]
        ELSE LET participants == d1.chats[chat_id].participants
                 joined == IF InSeq(participants, username) THEN participants
                           ELSE SortedSet(UserOrder, Append(participants, username))
                 invites == d1.invites[username]
                 chats == IF StrInList(invites.chats, chat_id)
                          THEN RemoveStr(invites.chats, chat_id) ELSE invites.chats
             IN  [data |-> [d1 EXCEPT !.chats[chat_id].participants = joined,
                                      !.invites[username].chats = chats],
                  ret |-> <<TRUE, FALSE>>]

Without(s, target) == SelectSeq(s, LAMBDA i : i.target # target)

\* Storage.remove_room_invite
remove_room_invite(data, username, room) ==
    LET users == setdefault(data.invites, username, EmptyBucket)
        invites == users[username]
        rooms == Without(invites.rooms, room)
    IN  IF Len(rooms) # Len(invites.rooms)
        THEN [data |-> [data EXCEPT !.invites = put(users, username, [invites EXCEPT !.rooms = rooms])],
              ret |-> TRUE]
        ELSE [data |-> data, ret |-> FALSE]

\* Storage.remove_chat_invite
remove_chat_invite(data, username, chat_id) ==
    LET users == setdefault(data.invites, username, EmptyBucket)
        invites == users[username]
        chats == Without(invites.chats, chat_id)
    IN  IF Len(chats) # Len(invites.chats)
        THEN [data |-> [data EXCEPT !.invites = put(users, username, [invites EXCEPT !.chats = chats])],
              ret |-> TRUE]
        ELSE [data |-> data, ret |-> FALSE]

\* has_room_invite reporting the expiry without writing the swept invites back
has_room_invite_no_write(data, username, room, t) ==
    LET swept == remove_expired_invites(data, username, t)
    IN  [data |-> data,
         ret |-> <<HasEntry(swept.data.invites[username].rooms, room),
                   InSeq(swept.expired.rooms, room)>>]

\* has_room_invite without the expiry sweep
has_room_invite_no_sweep(data, username, room, t) ==
    [data |-> data, ret |-> <<HasEntry(Bucket(data, username).rooms, room), FALSE>>]

\* Storage.has_room_invite: ret is <<has_invite, expired>>
has_room_invite(data, username, room, t) ==
    LET swept == remove_expired_invites(data, username, t)
    IN  [data |-> IF AnyExpired(swept.expired) THEN swept.data ELSE data,
         ret |-> <<HasEntry(swept.data.invites[username].rooms, room),
                   InSeq(swept.expired.rooms, room)>>]

\* Storage.has_chat_invite
has_chat_invite(data, username, chat_id, t) ==
    LET swept == remove_expired_invites(data, username, t)
    IN  [data |-> IF AnyExpired(swept.expired) THEN swept.data ELSE data,
         ret |-> <<HasEntry(swept.data.invites[username].chats, chat_id),
                   InSeq(swept.expired.chats, chat_id)>>]

\* Storage.cleanup_expired_invites: ret is the expired report
cleanup_expired_invites(data, username, t) ==
    LET swept == remove_expired_invites(data, username, t)
    IN  [data |-> IF AnyExpired(swept.expired) THEN swept.data ELSE data,
         ret |-> swept.expired]

RECURSIVE InsertByRank(_, _, _)
InsertByRank(rank, s, x) ==
    IF s = <<>> THEN <<x>>
    ELSE IF rank[x] < rank[Head(s)] THEN <<x>> \o s
    ELSE <<Head(s)>> \o InsertByRank(rank, Tail(s), x)

RECURSIVE SortByRank(_, _)
\* list.sort(key=...): ascending, equal keys in their order
SortByRank(rank, s) ==
    IF s = <<>> THEN <<>>
    ELSE InsertByRank(rank, SortByRank(rank, SubSeq(s, 1, Len(s) - 1)), s[Len(s)])

RoomRank == [room \in Rooms |-> Rank(RoomOrder, room)]
\* the order of the ids "a:b" as strings
ChatRank ==
    [chat_id \in ChatIds |->
        Rank(UserOrder, chat_id[1]) * (Len(UserOrder) + 1) + Rank(UserOrder, chat_id[2])]

\* Storage.list_room_invites: the room names listed
list_room_invites(data, username) == SortByRank(RoomRank, Targets(Bucket(data, username).rooms))

\* Storage.list_chat_invites: the chat ids listed
list_chat_invites(data, username) == SortByRank(ChatRank, Targets(Bucket(data, username).chats))

RECURSIVE SeqOf(_)
\* the keys of a dict, in some order
SeqOf(S) ==
    IF S = {} THEN <<>>
    ELSE LET x == CHOOSE y \in S : TRUE IN <<x>> \o SeqOf(S \ {x})

UserRank == [u \in MediaUsers |-> Rank(UserOrder, u)]

\* Storage.list_rooms_for_user: {room, kind} of the user's rooms, sorted by name
list_rooms_for_user(data, username) ==
    LET names == SortByRank(RoomRank,
                            SeqOf({room \in DOMAIN data.rooms :
                                     InSeq(data.rooms[room].members, username)}))
    IN  [i \in DOMAIN names |-> [room |-> names[i], kind |-> data.rooms[names[i]].kind]]

\* Storage.list_chats_for_user: {chat, kind} of the user's chats, sorted by id
list_chats_for_user(data, username) ==
    LET ids == SortByRank(ChatRank,
                          SeqOf({chat_id \in DOMAIN data.chats :
                                   InSeq(data.chats[chat_id].participants, username)}))
    IN  [i \in DOMAIN ids |-> [chat |-> ids[i], kind |-> data.chats[ids[i]].kind]]

\* Storage.get_room_members
get_room_members(data, room) ==
    IF room \in DOMAIN data.rooms THEN SortByRank(UserRank, data.rooms[room].members) ELSE <<>>

\* Storage.get_chat_members
get_chat_members(data, chat_id) ==
    IF chat_id \in DOMAIN data.chats
    THEN SortByRank(UserRank, data.chats[chat_id].participants) ELSE <<>>

\* the target key f"room:{room}" / f"chat:{chat}": the prefix followed by the name, the
\* chat id "a:b" being the pair <<a, b>>
room_key(room) == <<"room", room>>
chat_key(chat_id) == <<"chat">> \o chat_id

\* add_message putting the message at the head of the history
add_message_first(data, target, sender, payload, t) ==
    LET messages == setdefault(data.messages, target, <<>>)
        message == [sender |-> sender, ts |-> t] @@ payload
    IN  [data EXCEPT !.messages = put(messages, target, <<message>> \o messages[target])]

\* Storage.add_message
add_message(data, target, sender, payload, t) ==
    LET messages == setdefault(data.messages, target, <<>>)
        message == [sender |-> sender, ts |-> t] @@ payload
    IN  [data EXCEPT !.messages = put(messages, target, Append(messages[target], message))]

\* Python None for the limit of list_messages
NoLimit == -1

\* Storage.list_messages: the whole history, or its last limit entries (messages[-0:]
\* is the whole history)
list_messages(data, target, limit) ==
    LET messages == IF target \in DOMAIN data.messages THEN data.messages[target] ELSE <<>>
    IN  IF limit = NoLimit \/ limit = 0 \/ limit >= Len(messages) THEN messages
        ELSE SubSeq(messages, Len(messages) - limit + 1, Len(messages))

\* ------------------------------------------- writers and their drains (send)
\* a handler task is at its readline, or inside a send waiting for the drain of writer
\* `on`, with the push it will make next to writer `next` (NoConn: none)
AtReadline == [at |-> "readline", on |-> NoConn, next |-> NoConn]

\* every writer below its high-water mark and nothing written, every task at its readline
WireIdle ==
    [paused |-> [w \in Conns |-> FALSE],
     lines |-> [w \in Conns |-> <<>>],
     task |-> [k \in Conns |-> AtReadline]]

\* ------------------------------------------- the database file (server/storage.py)
\* the threads that call the Store; NoThread is the holder of a free lock
Threads == {1, 2}
NoThread == 0

\* Storage._checksum_payload: the SHA-256 hex digest of the canonical JSON of data, a
\* value that differs for different data (collisions are not followed)
checksum_payload(data) == [sum |-> "hex", of |-> data]
\* a hex string that is the digest of no data written here
BadSum == [sum |-> "other_hex", of |-> default_data]
\* the "checksum" field missing or null, and the empty string
NoSum == [sum |-> "none", of |-> default_data]
EmptySum == [sum |-> "empty", of |-> default_data]
\* `if checksum:`
Truthy(checksum) == checksum.sum \in {"hex", "other_hex"}

\* What a path holds: no file; a file whose JSON text is incomplete (opened for writing
\* and empty, or cut before its end); the object {"format", "version", "data",
\* "checksum"}; an object without the "data" key, which is read as the data itself
Absent == [form |-> "absent", data |-> default_data, checksum |-> NoSum]
Truncated == [form |-> "truncated", data |-> default_data, checksum |-> NoSum]
Wrapped(data, checksum) == [form |-> "wrapped", data |-> data, checksum |-> checksum]
Legacy(data) == [form |-> "legacy", data |-> data, checksum |-> NoSum]

\* Storage._normalize_data for an object whose sections are dicts: a user without a
\* status entry gets one, offline since created_at
normalize_data(data) ==
    [data EXCEPT !.status =
        [u \in DOMAIN data.status \cup DOMAIN data.users |->
            IF u \in DOMAIN data.status THEN data.status[u]
            ELSE [online |-> FALSE, last_seen |-> data.users[u].created_at]]]

ReadError(error) == [ok |-> FALSE, error |-> error, data |-> default_data]

\* Storage._read: the data, or the exception raised
read(file) ==
    CASE file.form = "absent" -> ReadError("FileNotFoundError")
      [] file.form = "truncated" -> ReadError("JSONDecodeError")
      [] file.form = "wrapped" ->
            IF Truthy(file.checksum) /\ file.checksum # checksum_payload(file.data)
            THEN ReadError("ValueError")
            ELSE [ok |-> TRUE, error |-> Missing, data |-> normalize_data(file.data)]
      [] OTHER -> [ok |-> TRUE, error |-> Missing, data |-> normalize_data(file.data)]

\* Storage._write, the text dumped: the normalized data with its checksum
write_content(data) == Wrapped(normalize_data(data), checksum_payload(normalize_data(data)))

\* _write dumping to the database path itself
write_path_in_place == "db"

\* Storage._write, the path written: the temporary sibling of the database path
write_path == "tmp"

\* `with self._lock` entered whatever the lock's holder
CanAcquire_unlocked(lock) == TRUE

\* `with self._lock`: entered when no thread holds the lock
CanAcquire(lock) == lock = NoThread

\* a Store call of a thread: where it is (idle, or about to open / dump / replace), the
\* operation, and the data it is about to write
NoOp == [kind |-> "none", a |-> Missing, b |-> Missing]
Idle == [pc |-> "idle", op |-> NoOp, data |-> default_data]
\* _ensure_file writing the default data
InitOp == [kind |-> "default", a |-> Missing, b |-> Missing]

\* no load yet
NotLoaded == ReadError("not_loaded")

\* the process is down and there is no database file
DiskDown ==
    [up |-> "down", fs |-> [db |-> Absent, tmp |-> Absent], lock |-> NoThread,
     th |-> [t \in Threads |-> Idle], loaded |-> NotLoaded, written |-> Absent]

\* ------------------------------------- Session Registry (server/main.py)
\* ServerState.set_online: [sessions, status] afterwards
set_online(sess, stat, username, writer, t) ==
    [sessions |-> put(sess, username, writer),
     status |-> put(stat, username, [online |-> TRUE, last_seen |-> t])]

\* set_offline leaving the session registered
set_offline_keeps_session(sess, stat, username, t) ==
    [sessions |-> sess,
     status |-> put(stat, username, [online |-> FALSE, last_seen |-> t])]

\* ServerState.set_offline
set_offline(sess, stat, username, t) ==
    [sessions |-> [u \in DOMAIN sess \ {username} |-> sess[u]],
     status |-> put(stat, username, [online |-> FALSE, last_seen |-> t])]

\* ServerState.touch
touch(stat, username, t) == put(stat, username, [online |-> TRUE, last_seen |-> t])

\* set_offline leaving the media session bound and its writer open
pop_media_kept(msess, username) == [media_sessions |-> msess, ret |-> NoConn]

\* ServerState.set_offline, the media session: it is popped; ret is the media writer
\* closed, NoConn when the user has none
pop_media(msess, username) ==
    IF username \in DOMAIN msess
    THEN [media_sessions |-> [u \in DOMAIN msess \ {username} |-> msess[u]],
          ret |-> msess[username]]
    ELSE [media_sessions |-> msess, ret |-> NoConn]

\* ServerState.list_users_with_status
list_users_with_status(data, stat) ==
    LET users == SelectSeq(UserOrder, LAMBDA u : u \in list_users(data))
    IN  [i \in DOMAIN users |->
           [username |-> users[i]] @@
           (IF users[i] \in DOMAIN stat THEN stat[users[i]]
            ELSE [online |-> FALSE, last_seen |-> NoTime])]

\* ------------------------------------------------------------------ Init
\* a response line: its "ok" and "error" fields (Missing when it carries no error), and the
\* action of the request it answers
NoData ==
    [users |-> <<>>, rooms |-> <<>>, chats |-> <<>>, invites |-> EmptyBucket,
     expired |-> EmptyBucket, messages |-> <<>>, members |-> <<>>]

\* req is the action of the request answered; action is the response's own "action" field,
\* which the handlers put in every response but the {"ok": False, "error": ...} ones; data
\* is the listings the response carries
Response(req, ok, error) ==
    [req |-> req, ok |-> ok, error |-> error,
     action |-> IF ~ok /\ error # Missing THEN Missing ELSE req,
     data |-> NoData]

\* a response carrying listings: the fields given replace the empty ones
Carrying(r, fields) ==
    [r EXCEPT !.data = [k \in DOMAIN NoData |-> IF k \in DOMAIN fields THEN fields[k] ELSE NoData[k]]]

\* no request read yet
NoOutput == [by |-> NoConn, lines |-> <<>>]

\* a line written to the writer of a connection
Line(to, frame) == [to |-> to, frame |-> frame]

\* a control connection: st is "new" before it is accepted, "open" while its handler is
\* in the request loop, "broken" once its connection is lost and the handler has not seen
\* it, "exiting" once the loop is left and "closed" after the finally block; username is the handler's local; wclosed says writer.close() was called
Fresh == [st |-> "new", username |-> Missing, wclosed |-> FALSE]

Init ==
    /\ db = default_data
    /\ sessions = EmptyMap
    /\ status = EmptyMap
    /\ conn = [c \in Conns |-> Fresh]
    /\ reply = Response(Missing, TRUE, Missing)
    /\ out = NoOutput
    /\ now = 0
    /\ ticks = 0
    /\ media_sessions = EmptyMap
    /\ mconn = [c \in MediaConns |-> Fresh]
    /\ mout = NoOutput
    /\ disk = DiskDown
    /\ wire = WireIdle

\* --------------------------------------- Control Gateway: handle_client
\* the handler of c is at its readline and reads a request line; once writer.close() was
\* called the transport reads no more and the readline returns end of file
Reading(c) == conn[c].st = "open" /\ ~conn[c].wclosed

Authenticated(c) == conn[c].username # Missing

\* send(writer, response): the handler of c answers the request it read
Answer(c, response) ==
    /\ reply' = response
    /\ out' = [by |-> c, lines |-> <<Line(c, response)>>]

\* the error answered and the loop left, where the code continues with the next line
Fail_and_leave(c, req, error) ==
    /\ Answer(c, Response(req, FALSE, error))
    /\ conn' = [conn EXCEPT ![c] = [st |-> "closed", username |-> Missing, wclosed |-> TRUE]]
    /\ sessions' = [u \in DOMAIN sessions \ {conn[c].username} |-> sessions[u]]
    /\ UNCHANGED <<db, status, now, ticks, disk, wire, mediavars>>

Fail(c, req, error) ==
    /\ Answer(c, Response(req, FALSE, error))
    /\ UNCHANGED <<db, sessions, status, conn, now, ticks, disk, wire, mediavars>>

\* the writer of c takes a line: its connection is up and close() was not called on it;
\* on a writer whose connection is lost or closing, the drain of send raises
Writable(c) == conn[c].st \in {"open", "exiting"} /\ ~conn[c].wclosed

\* the finally block of the handler of c: set_offline of its username (the session and the
\* media session popped, the media writer closed, the status stored), then writer.close();
\* data is the store as the request left it
LeaveLoop(c, data) ==
    /\ IF Authenticated(c)
       THEN LET r == set_offline(sessions, status, conn[c].username, now)
                m == pop_media(media_sessions, conn[c].username)
            IN  /\ sessions' = r.sessions
                /\ status' = r.status
                /\ db' = set_status(data, conn[c].username, FALSE, now)
                /\ media_sessions' = m.media_sessions
                /\ mconn' = IF m.ret = NoConn THEN mconn
                            ELSE [mconn EXCEPT ![m.ret].wclosed = TRUE]
       ELSE /\ db' = data
            /\ UNCHANGED <<sessions, status, media_sessions, mconn>>
    /\ conn' = [conn EXCEPT ![c] = [st |-> "closed", username |-> Missing, wclosed |-> TRUE]]

\* the handler of c answers and then, when the target has a session, sends it the
\* invite_received frame on the session's writer; a send that raises is not caught in the
\* loop, so the handler of c leaves through its finally block
AnswerAndPush(c, data, response, target, frame) ==
    IF target \notin DOMAIN sessions
    THEN /\ Answer(c, response)
         /\ db' = data
         /\ UNCHANGED <<sessions, status, conn, media_sessions, mconn>>
    ELSE IF Writable(sessions[target])
    THEN /\ reply' = response
         /\ out' = [by |-> c, lines |-> <<Line(c, response), Line(sessions[target], frame)>>]
         /\ db' = data
         /\ UNCHANGED <<sessions, status, conn, media_sessions, mconn>>
    ELSE /\ Answer(c, response)
         /\ LeaveLoop(c, data)

\* Storage.get_room_kind
get_room_kind(data, room) ==
    IF room \in DOMAIN data.rooms THEN data.rooms[room].kind ELSE "text"

\* Storage.get_chat_kind
get_chat_kind(data, chat_id) ==
    IF chat_id \in DOMAIN data.chats THEN data.chats[chat_id].kind ELSE "text"

\* the invite_received frame
InviteReceived(invite_type, target, kind, invited_at, from) ==
    [action |-> "invite_received", invite_type |-> invite_type, target |-> target,
     kind |-> kind, invited_at |-> invited_at, from |-> from]

\* asyncio.start_server accepts a connection and starts handle_client
Accept(c) ==
    /\ conn[c].st = "new"
    /\ conn' = [conn EXCEPT ![c].st = "open"]
    /\ UNCHANGED <<db, sessions, status, reply, out, now, ticks, disk, wire, mediavars>>

Register(c, user, password) ==
    /\ Reading(c)
    /\ IF user = Missing \/ password = Missing
       THEN Fail(c, "register", "missing_credentials")
       ELSE LET r == register_user(db, user, password, now)
            IN  /\ db' = r.data
                /\ Answer(c, Response("register", r.ret, Missing))
                /\ UNCHANGED <<sessions, status, conn, now, ticks, disk, wire, mediavars>>

\* the response to a successful login: the users with their status once the user is
\* online, the user's rooms and chats, and the invites as stored, not swept
LoginResponse(data, stat, user) ==
    Carrying(Response("login", TRUE, Missing),
             [users |-> list_users_with_status(data, stat),
              rooms |-> list_rooms_for_user(data, user),
              chats |-> list_chats_for_user(data, user),
              invites |-> [rooms |-> list_room_invites(data, user),
                           chats |-> list_chat_invites(data, user)]])

\* login without the test of state.sessions
Login_no_session_test(c, user, password) ==
    /\ Reading(c)
    /\ IF user = Missing \/ password = Missing
       THEN Fail(c, "login", "missing_credentials")
       ELSE IF ~validate_login(db, user, password)
       THEN Fail(c, "login", "invalid_credentials")
       ELSE LET r == set_online(sessions, status, user, c, now)
            IN  /\ conn' = [conn EXCEPT ![c].username = user]
                /\ sessions' = r.sessions
                /\ status' = r.status
                /\ db' = set_status(db, user, TRUE, now)
                /\ Answer(c, LoginResponse(db, r.status, user))
                /\ UNCHANGED <<now, ticks, disk, wire, mediavars>>

Login(c, user, password) ==
    /\ Reading(c)
    /\ IF user = Missing \/ password = Missing
       THEN Fail(c, "login", "missing_credentials")
       ELSE IF user \in DOMAIN sessions
       THEN Fail(c, "login", "already_online")
       ELSE IF ~validate_login(db, user, password)
       THEN Fail(c, "login", "invalid_credentials")
       ELSE LET r == set_online(sessions, status, user, c, now)
            IN  /\ conn' = [conn EXCEPT ![c].username = user]
                /\ sessions' = r.sessions
                /\ status' = r.status
                /\ db' = set_status(db, user, TRUE, now)
                /\ Answer(c, LoginResponse(db, r.status, user))
                /\ UNCHANGED <<now, ticks, disk, wire, mediavars>>

Heartbeat(c) ==
    /\ Reading(c)
    /\ IF ~Authenticated(c)
       THEN Fail(c, "heartbeat", "not_authenticated")
       ELSE /\ status' = touch(status, conn[c].username, now)
            /\ db' = set_status(db, conn[c].username, TRUE, now)
            /\ Answer(c, Response("heartbeat", TRUE, Missing))
            /\ UNCHANGED <<sessions, conn, now, ticks, disk, wire, mediavars>>

ListInvites(c) ==
    /\ Reading(c)
    /\ IF ~Authenticated(c)
       THEN Fail(c, "list_invites", "not_authenticated")
       ELSE LET r == cleanup_expired_invites(db, conn[c].username, now)
            IN  /\ db' = r.data
                /\ Answer(c, Carrying(Response("list_invites", TRUE,
                                               IF AnyExpired(r.ret) THEN "invite_expired"
                                               ELSE Missing),
                                      [expired |-> r.ret,
                                       invites |-> [rooms |-> list_room_invites(r.data, conn[c].username),
                                                    chats |-> list_chat_invites(r.data, conn[c].username)]]))
                /\ UNCHANGED <<sessions, status, conn, now, ticks, disk, wire, mediavars>>

CreateRoom(c, room, kind) ==
    /\ Reading(c)
    /\ IF ~Authenticated(c)
       THEN Fail(c, "create_room", "not_authenticated")
       ELSE IF room = Missing
       THEN Fail(c, "create_room", "missing_room")
       ELSE LET r == create_room(db, room, conn[c].username, kind, now)
            IN  /\ db' = r.data
                /\ Answer(c, Response("create_room", r.ret, Missing))
                /\ UNCHANGED <<sessions, status, conn, now, ticks, disk, wire, mediavars>>

JoinRoom(c, room) ==
    /\ Reading(c)
    /\ IF ~Authenticated(c)
       THEN Fail(c, "join_room", "not_authenticated")
       ELSE IF room = Missing
       THEN Fail(c, "join_room", "missing_room")
       ELSE LET username == conn[c].username
                h == has_room_invite(db, username, room, now)
                has_invite == h.ret[1]
                invite_expired == h.ret[2]
            IN  IF invite_expired
                THEN /\ db' = h.data
                     /\ Answer(c, Response("join_room", FALSE, "invite_expired"))
                     /\ UNCHANGED <<sessions, status, conn, now, ticks, disk, wire, mediavars>>
                ELSE IF ~has_invite /\ ~room_has_member(h.data, room, username)
                THEN /\ db' = h.data
                     /\ Answer(c, Response("join_room", FALSE, "invite_required"))
                     /\ UNCHANGED <<sessions, status, conn, now, ticks, disk, wire, mediavars>>
                ELSE LET r == add_room_member(h.data, room, username, now)
                     IN  /\ db' = r.data
                         /\ Answer(c, Response("join_room", r.ret, Missing))
                         /\ UNCHANGED <<sessions, status, conn, now, ticks, disk, wire, mediavars>>

InviteRoom(c, room, target) ==
    /\ Reading(c)
    /\ IF ~Authenticated(c)
       THEN Fail(c, "invite_room", "not_authenticated")
       ELSE IF room = Missing \/ target = Missing
       THEN Fail(c, "invite_room", "missing_parameters")
       ELSE IF ~room_has_member(db, room, conn[c].username)
       THEN Fail(c, "invite_room", "not_room_member")
       ELSE IF target \notin list_users(db)
       THEN Fail(c, "invite_room", "user_not_found")
       ELSE LET r == invite_to_room(db, room, target, now)
                response == Response("invite_room", r.ret # NoTime, Missing)
            IN  /\ IF r.ret # NoTime
                   THEN AnswerAndPush(c, r.data, response, target,
                                      InviteReceived("room", room, get_room_kind(r.data, room),
                                                     r.ret, conn[c].username))
                   ELSE /\ Answer(c, response)
                        /\ db' = r.data
                        /\ UNCHANGED <<sessions, status, conn, media_sessions, mconn>>
                /\ UNCHANGED <<now, ticks, disk, wire, mout>>

CreateChat(c, target, kind) ==
    /\ Reading(c)
    /\ IF ~Authenticated(c)
       THEN Fail(c, "create_chat", "not_authenticated")
       ELSE IF target = Missing
       THEN Fail(c, "create_chat", "missing_username")
       ELSE IF target \notin list_users(db)
       THEN Fail(c, "create_chat", "user_not_found")
       ELSE LET r == create_chat(db, conn[c].username, target, kind)
                i == invite_to_chat(r.data, target, r.ret, now)
                response == Response("create_chat", TRUE, Missing)
            IN  /\ IF i.ret # NoTime
                   THEN AnswerAndPush(c, i.data, response, target,
                                      InviteReceived("chat", r.ret, kind, i.ret, conn[c].username))
                   ELSE /\ Answer(c, response)
                        /\ db' = i.data
                        /\ UNCHANGED <<sessions, status, conn, media_sessions, mconn>>
                /\ UNCHANGED <<now, ticks, disk, wire, mout>>

AcceptChat(c, chat_id) ==
    /\ Reading(c)
    /\ IF ~Authenticated(c)
       THEN Fail(c, "accept_chat", "not_authenticated")
       ELSE IF chat_id = NoChat
       THEN Fail(c, "accept_chat", "missing_chat")
       ELSE LET r == accept_chat_invite(db, conn[c].username, chat_id, now)
            IN  /\ db' = r.data
                /\ Answer(c, IF r.ret[2]
                              THEN Response("accept_chat", FALSE, "invite_expired")
                              ELSE Response("accept_chat", r.ret[1], Missing))
                /\ UNCHANGED <<sessions, status, conn, now, ticks, disk, wire, mediavars>>

DeclineRoomInvite(c, room) ==
    /\ Reading(c)
    /\ IF ~Authenticated(c)
       THEN Fail(c, "decline_room_invite", "not_authenticated")
       ELSE IF room = Missing
       THEN Fail(c, "decline_room_invite", "missing_room")
       ELSE LET r == remove_room_invite(db, conn[c].username, room)
            IN  /\ db' = r.data
                /\ Answer(c, Response("decline_room_invite", r.ret, Missing))
                /\ UNCHANGED <<sessions, status, conn, now, ticks, disk, wire, mediavars>>

DeclineChatInvite(c, chat_id) ==
    /\ Reading(c)
    /\ IF ~Authenticated(c)
       THEN Fail(c, "decline_chat_invite", "not_authenticated")
       ELSE IF chat_id = NoChat
       THEN Fail(c, "decline_chat_invite", "missing_chat")
       ELSE LET r == remove_chat_invite(db, conn[c].username, chat_id)
            IN  /\ db' = r.data
                /\ Answer(c, Response("decline_chat_invite", r.ret, Missing))
                /\ UNCHANGED <<sessions, status, conn, now, ticks, disk, wire, mediavars>>

\* list_users: answered without a test of the handler's username
ListUsers(c) ==
    /\ Reading(c)
    /\ Answer(c, Carrying(Response("list_users", TRUE, Missing),
                          [users |-> list_users_with_status(db, status)]))
    /\ UNCHANGED <<db, sessions, status, conn, now, ticks, disk, wire, mediavars>>

ListRooms(c) ==
    /\ Reading(c)
    /\ IF ~Authenticated(c)
       THEN Fail(c, "list_rooms", "not_authenticated")
       ELSE /\ Answer(c, Carrying(Response("list_rooms", TRUE, Missing),
                                  [rooms |-> list_rooms_for_user(db, conn[c].username)]))
            /\ UNCHANGED <<db, sessions, status, conn, now, ticks, disk, wire, mediavars>>

ListChats(c) ==
    /\ Reading(c)
    /\ IF ~Authenticated(c)
       THEN Fail(c, "list_chats", "not_authenticated")
       ELSE /\ Answer(c, Carrying(Response("list_chats", TRUE, Missing),
                                  [chats |-> list_chats_for_user(db, conn[c].username)]))
            /\ UNCHANGED <<db, sessions, status, conn, now, ticks, disk, wire, mediavars>>

\* send_message: a "room" field wins over a "chat" field; the payload is tested after
\* the membership
SendMessage(c, room, chat, kind, text, filename, content) ==
    /\ Reading(c)
    /\ IF ~Authenticated(c)
       THEN Fail(c, "send_message", "not_authenticated")
       ELSE IF room # Missing /\ ~room_has_member(db, room, conn[c].username)
       THEN Fail(c, "send_message", "not_room_member")
       ELSE IF room = Missing /\ chat # NoChat /\ ~chat_has_member(db, chat, conn[c].username)
       THEN Fail(c, "send_message", "not_chat_member")
       ELSE IF room = Missing /\ chat = NoChat
       THEN Fail(c, "send_message", "missing_target")
       ELSE IF kind = "text" /\ text = Missing
       THEN Fail(c, "send_message", "missing_text")
       ELSE IF kind \in {"file", "image"} /\ (filename = Missing \/ content = Missing)
       THEN Fail(c, "send_message", "missing_attachment")
       ELSE IF kind \notin {"text", "file", "image"}
       THEN Fail(c, "send_message", "unknown_message_kind")
       ELSE LET target == IF room # Missing THEN room_key(room) ELSE chat_key(chat)
                payload == IF kind = "text" THEN [kind |-> "text", text |-> text]
                           ELSE [kind |-> kind, filename |-> filename, content |-> content]
            IN  /\ db' = add_message(db, target, conn[c].username, payload, now)
                /\ Answer(c, Response("send_message", TRUE, Missing))
                /\ UNCHANGED <<sessions, status, conn, now, ticks, disk, wire, mediavars>>

ListMessages(c, room, chat, limit) ==
    /\ Reading(c)
    /\ IF ~Authenticated(c)
       THEN Fail(c, "list_messages", "not_authenticated")
       ELSE IF room # Missing /\ ~room_has_member(db, room, conn[c].username)
       THEN Fail(c, "list_messages", "not_room_member")
       ELSE IF room = Missing /\ chat # NoChat /\ ~chat_has_member(db, chat, conn[c].username)
       THEN Fail(c, "list_messages", "not_chat_member")
       ELSE IF room = Missing /\ chat = NoChat
       THEN Fail(c, "list_messages", "missing_target")
       ELSE LET target == IF room # Missing THEN room_key(room) ELSE chat_key(chat)
            IN  /\ Answer(c, Carrying(Response("list_messages", TRUE, Missing),
                                      [messages |-> list_messages(db, target, limit)]))
                /\ UNCHANGED <<db, sessions, status, conn, now, ticks, disk, wire, mediavars>>

ListMembers(c, room, chat) ==
    /\ Reading(c)
    /\ IF ~Authenticated(c)
       THEN Fail(c, "list_members", "not_authenticated")
       ELSE IF room # Missing /\ ~room_has_member(db, room, conn[c].username)
       THEN Fail(c, "list_members", "not_room_member")
       ELSE IF room = Missing /\ chat # NoChat /\ ~chat_has_member(db, chat, conn[c].username)
       THEN Fail(c, "list_members", "not_chat_member")
       ELSE IF room = Missing /\ chat = NoChat
       THEN Fail(c, "list_members", "missing_target")
       ELSE /\ Answer(c, Carrying(Response("list_members", TRUE, Missing),
                                  [members |-> IF room # Missing THEN get_room_members(db, room)
                                               ELSE get_chat_members(db, chat)]))
            /\ UNCHANGED <<db, sessions, status, conn, now, ticks, disk, wire, mediavars>>

\* a request object whose action is none of the handler's
UnknownAction(c) ==
    /\ Reading(c)
    /\ Fail(c, "unknown", "unknown_action")

\* the lines that are no request object: text that is not JSON, the JSON null, JSON that
\* is not an object (an array, a number, a string), bytes that are not UTF-8
BadLines == {"not_json", "null", "array", "not_utf8"}

\* parse_message: the value parsed ("None" for Python None), or the exception raised;
\* only json.JSONDecodeError is caught
parse_message(line) ==
    CASE line = "not_utf8" -> "UnicodeDecodeError"
      [] line = "not_json" -> "None"
      [] line = "null" -> "None"
      [] line = "array" -> "array"
      [] OTHER -> "object"

\* the handler reads a line that is no request object: invalid_json when parse_message
\* returns None; otherwise parse_message or message.get raises, nothing is written and
\* the handler leaves through its finally block
BadLine(c, line) ==
    /\ Reading(c)
    /\ IF parse_message(line) = "None"
       THEN Fail(c, "invalid", "invalid_json")
       ELSE /\ out' = [by |-> c, lines |-> <<>>]
            /\ LeaveLoop(c, db)
            /\ UNCHANGED <<reply, now, ticks, disk, wire, mout>>

\* logout: the response is sent and the loop left; the finally block runs after the send
Logout(c) ==
    /\ Reading(c)
    /\ conn' = [conn EXCEPT ![c].st = "exiting"]
    /\ Answer(c, Response("logout", TRUE, Missing))
    /\ UNCHANGED <<db, sessions, status, now, ticks, disk, wire, mediavars>>

\* the loop is left (readline returned no line, a send raised, or after logout) and
\* the finally block runs: set_offline of the handler's username, writer.close()
Finally(c) ==
    /\ conn[c].st \in {"open", "exiting", "broken"}
    /\ LeaveLoop(c, db)
    /\ UNCHANGED <<reply, out, now, ticks, disk, wire, mout>>

\* the connection of c is lost (reset by the peer, a failed write): the transport is gone,
\* the handler has not yet been resumed to see it
PeerLost(c) ==
    /\ conn[c].st = "open"
    /\ conn' = [conn EXCEPT ![c].st = "broken"]
    /\ UNCHANGED <<db, sessions, status, reply, out, now, ticks, disk, wire, mediavars>>

\* ----------------------------------- Media Gateway: handle_media_client
\* the opaque base64 payloads ("audio" / "frame")
Payloads == {"AAAA"}
MediaActions == {"voice_chunk", "screen_frame"}
\* a target "prefix:name" is the prefix followed by the name: room "dev", a room that does
\* not exist, the chat "alice:bob", a target that is neither a room nor a chat
MediaTargets == {room_key("dev"), room_key("lab"), chat_key(<<"alice", "bob">>), <<"dm", "bob">>}
\* a missing or empty "target" field
NoTarget == <<>>

\* target.startswith("room:") / target.split(":", 1)[1]
starts_with(target, prefix) == Head(target) = prefix
room_of(target) == target[2]
chat_of(target) == Tail(target)

\* the handler of mc is at its readline and reads a frame
MReading(mc) == mconn[mc].st = "open" /\ ~mconn[mc].wclosed

\* the media writer takes a line; on a writer whose connection is lost or closed the
\* drain of send raises
MWritable(mc_state, mc) == mc_state[mc].st = "open" /\ ~mc_state[mc].wclosed

\* send(writer, payload) for the recipient user: the line written to the writer
MediaLine(to, user, frame) == [to |-> to, user |-> user, frame |-> frame]

\* the relayed frame: the payload under "audio" for voice_chunk, under "frame" for
\* screen_frame
media_frame(action, from, target, payload) ==
    IF action = "voice_chunk"
    THEN [action |-> action, from |-> from, target |-> target, audio |-> payload]
    ELSE [action |-> action, from |-> from, target |-> target, frame |-> payload]

\* the send tasks broadcast_media gathers: one per recipient other than the sender that
\* has a media writer
send_tasks(msess, recipients, sender) ==
    SelectSeq(recipients, LAMBDA user : user # sender /\ user \in DOMAIN msess)

\* broadcast_media that also sends to the sender
broadcast_media_echo(msess, mc_state, recipients, payload, sender) ==
    LET tasks == SelectSeq(recipients, LAMBDA user : user \in DOMAIN msess)
        done == SelectSeq(tasks, LAMBDA user : MWritable(mc_state, msess[user]))
    IN  [lines |-> [i \in DOMAIN done |-> MediaLine(msess[done[i]], done[i], payload)],
         failed |-> Len(done) # Len(tasks)]

\* broadcast_media awaiting the sends one after the other: the first that raises ends it
broadcast_media_in_turn(msess, mc_state, recipients, payload, sender) ==
    LET tasks == send_tasks(msess, recipients, sender)
        bad == {i \in DOMAIN tasks : ~MWritable(mc_state, msess[tasks[i]])}
        done == IF bad = {} THEN tasks
                ELSE SubSeq(tasks, 1, (CHOOSE i \in bad : \A j \in bad : i <= j) - 1)
    IN  [lines |-> [i \in DOMAIN done |-> MediaLine(msess[done[i]], done[i], payload)],
         failed |-> bad # {}]

\* broadcast_media: asyncio.gather runs every send task whether or not another raises,
\* and raises the first exception to the caller; lines is what was written, failed says
\* a send raised
broadcast_media(msess, mc_state, recipients, payload, sender) ==
    LET tasks == send_tasks(msess, recipients, sender)
        done == SelectSeq(tasks, LAMBDA user : MWritable(mc_state, msess[user]))
    IN  [lines |-> [i \in DOMAIN done |-> MediaLine(msess[done[i]], done[i], payload)],
         failed |-> Len(done) # Len(tasks)]

MediaAnswer(mc, response) ==
    mout' = [by |-> mc, lines |-> <<MediaLine(mc, mconn[mc].username, response)>>]

MediaFail(mc, req, error) ==
    /\ MediaAnswer(mc, Response(req, FALSE, error))
    /\ UNCHANGED <<db, sessions, status, conn, reply, out, now, ticks, disk, wire, media_sessions, mconn>>

\* the finally block of the media handler: its username's media session is popped, its
\* writer closed
MediaLeave(mc) ==
    /\ media_sessions' =
          IF mconn[mc].username # Missing
          THEN pop_media(media_sessions, mconn[mc].username).media_sessions
          ELSE media_sessions
    /\ mconn' = [mconn EXCEPT ![mc] = [st |-> "closed", username |-> Missing, wclosed |-> TRUE]]

MediaAccept(mc) ==
    /\ mconn[mc].st = "new"
    /\ mconn' = [mconn EXCEPT ![mc].st = "open"]
    /\ UNCHANGED <<db, sessions, status, conn, reply, out, now, ticks, disk, wire, media_sessions, mout>>

MediaLogin(mc, user) ==
    /\ MReading(mc)
    /\ IF user = Missing \/ user \notin DOMAIN sessions
       THEN MediaFail(mc, "media_login", "not_authenticated")
       ELSE /\ mconn' = [mconn EXCEPT ![mc].username = user]
            /\ media_sessions' = put(media_sessions, user, mc)
            /\ mout' = [by |-> mc,
                        lines |-> <<MediaLine(mc, user, Response("media_login", TRUE, Missing))>>]
            /\ UNCHANGED <<db, sessions, status, conn, reply, out, now, ticks, disk, wire>>

\* voice_chunk / screen_frame: the two branches differ in the name of the payload field
MediaFrame(mc, action, target, payload) ==
    /\ MReading(mc)
    /\ LET username == mconn[mc].username
       IN  IF username = Missing
           THEN MediaFail(mc, action, "not_authenticated")
           ELSE IF target = NoTarget \/ payload = Missing
           THEN MediaFail(mc, action, "missing_payload")
           ELSE IF starts_with(target, "room") /\ ~room_has_member(db, room_of(target), username)
           THEN MediaFail(mc, action, "not_room_member")
           ELSE IF starts_with(target, "chat") /\ ~chat_has_member(db, chat_of(target), username)
           THEN MediaFail(mc, action, "not_chat_member")
           ELSE IF ~starts_with(target, "room") /\ ~starts_with(target, "chat")
           THEN MediaFail(mc, action, "unknown_target")
           ELSE LET recipients == IF starts_with(target, "room")
                                  THEN get_room_members(db, room_of(target))
                                  ELSE get_chat_members(db, chat_of(target))
                    b == broadcast_media(media_sessions, mconn, recipients,
                                         media_frame(action, username, target, payload),
                                         username)
                IN  /\ mout' = [by |-> mc, lines |-> b.lines]
                    /\ IF b.failed
                       THEN MediaLeave(mc)
                       ELSE UNCHANGED <<media_sessions, mconn>>
                    /\ UNCHANGED <<db, sessions, status, conn, reply, out, now, ticks, disk, wire>>

\* the loop is left (readline returned no line or raised) and the finally block runs
MediaFinally(mc) ==
    /\ mconn[mc].st \in {"open", "broken"}
    /\ MediaLeave(mc)
    /\ UNCHANGED <<db, sessions, status, conn, reply, out, now, ticks, disk, wire, mout>>

\* the media connection is lost and the handler has not yet been resumed to see it
MediaPeerLost(mc) ==
    /\ mconn[mc].st = "open"
    /\ mconn' = [mconn EXCEPT ![mc].st = "broken"]
    /\ UNCHANGED <<db, sessions, status, conn, reply, out, now, ticks, disk, wire, media_sessions, mout>>

\* ------------------------------------ Presence Monitor: monitor_sessions
Stale(stat, u, t) ==
    /\ stat[u].last_seen # NoTime
    /\ stat[u].online
    /\ t - stat[u].last_seen > HEARTBEAT_TIMEOUT

RECURSIVE sweep(_, _, _)
\* the loop body for each stale user of the snapshot: set_offline
sweep(reg, users, t) ==
    IF users = {} THEN reg
    ELSE LET u == CHOOSE x \in users : TRUE
         IN  sweep(set_offline(reg.sessions, reg.status, u, t), users \ {u}, t)

\* one sweep: every stale user's control writer is closed and the user set offline, which
\* pops the user's media session and closes its writer
MonitorSweep ==
    LET stale == {u \in DOMAIN status : Stale(status, u, now)}
        r == sweep([sessions |-> sessions, status |-> status], stale, now)
    IN  /\ stale # {}
        /\ conn' = [c \in Conns |->
                      IF \E u \in stale : u \in DOMAIN sessions /\ sessions[u] = c
                      THEN [conn[c] EXCEPT !.wclosed = TRUE] ELSE conn[c]]
        /\ sessions' = r.sessions
        /\ status' = r.status
        /\ media_sessions' = [u \in DOMAIN media_sessions \ stale |-> media_sessions[u]]
        /\ mconn' = [c \in DOMAIN mconn |->
                       IF \E u \in stale : u \in DOMAIN media_sessions /\ media_sessions[u] = c
                       THEN [mconn[c] EXCEPT !.wclosed = TRUE] ELSE mconn[c]]
        /\ db' = [db EXCEPT !.status = [u \in DOMAIN db.status \cup stale |->
                                          IF u \in stale
                                          THEN [online |-> FALSE, last_seen |-> now]
                                          ELSE db.status[u]]]
        /\ UNCHANGED <<reply, out, now, ticks, disk, wire, mout>>

\* ----------------------------------------------------------------- clock
Tick(d) ==
    /\ ticks < MaxTicks
    /\ now' = now + d
    /\ ticks' = ticks + 1
    /\ UNCHANGED <<db, sessions, status, conn, reply, out, mediavars, disk, wire>>

\* ------------------------------------------------------------------ Next
UserArg == Users \cup {Missing}
RoomArg == Rooms \cup {Missing}
\* create_chat names another user: the client sends none naming its own user
\* (client/main.py, _create_chat)

\* the requests that act on the Session Registry, the handler's exit and the monitor; the
\* users are registered before the clock is advanced
NextSession ==
    \/ \E c \in Conns : Accept(c)
    \/ \E c \in Conns, u \in UserArg, p \in Passwords \cup {Missing} :
          ticks = 0 /\ Register(c, u, p)
    \/ \E c \in Conns, u \in UserArg, p \in Passwords \cup {Missing} : Login(c, u, p)
    \/ \E c \in Conns : Heartbeat(c)
    \/ \E c \in Conns : Logout(c)
    \/ \E c \in Conns : Finally(c)
    \/ MonitorSweep
    \/ \E d \in SessionSteps : Tick(d)

\* the requests that act on rooms, chats and invites, each carrying its fields; the rooms
\* are created before the clock is advanced
NextStore ==
    \/ \E c \in Conns : ListInvites(c)
    \/ \E c \in Conns, r \in Rooms, k \in Kinds : ticks = 0 /\ CreateRoom(c, r, k)
    \/ \E c \in Conns, r \in Rooms : JoinRoom(c, r)
    \/ \E c \in Conns, r \in Rooms, u \in Users : InviteRoom(c, r, u)
    \/ \E c \in Conns, u \in Users, k \in Kinds : u # conn[c].username /\ CreateChat(c, u, k)
    \/ \E c \in Conns, x \in ChatIds : AcceptChat(c, x)
    \/ \E c \in Conns, r \in Rooms : DeclineRoomInvite(c, r)
    \/ \E c \in Conns, x \in ChatIds : DeclineChatInvite(c, x)
    \/ \E d \in StoreSteps : Tick(d)

\* the same requests with a field missing
NextMissing ==
    \/ \E c \in Conns, k \in Kinds : CreateRoom(c, Missing, k)
    \/ \E c \in Conns : JoinRoom(c, Missing)
    \/ \E c \in Conns, r \in RoomArg, u \in UserArg :
          (r = Missing \/ u = Missing) /\ InviteRoom(c, r, u)
    \/ \E c \in Conns, k \in Kinds : CreateChat(c, Missing, k)
    \/ \E c \in Conns : AcceptChat(c, NoChat)
    \/ \E c \in Conns : DeclineRoomInvite(c, Missing)
    \/ \E c \in Conns : DeclineChatInvite(c, NoChat)

\* the Session Registry, the login protocol and the Presence Monitor from a new database
SpecSession == Init /\ [][NextSession]_vars

\* A state of Spec: every user registered with "pw1" and logged in at time 0, the
\* i-th user of UserOrder on connection i.
InitStore ==
    /\ db = [default_data EXCEPT
               !.users = [u \in Users |-> [password |-> "pw1", created_at |-> 0]],
               !.invites = [u \in Users |-> EmptyBucket],
               !.status = [u \in Users |-> [online |-> TRUE, last_seen |-> 0]]]
    /\ sessions = [u \in Users |-> Rank(UserOrder, u)]
    /\ status = [u \in Users |-> [online |-> TRUE, last_seen |-> 0]]
    /\ conn = [c \in Conns |-> [st |-> "open", username |-> UserOrder[c], wclosed |-> FALSE]]
    /\ reply = LoginResponse(db, status, "bob")
    /\ out = [by |-> 2, lines |-> <<Line(2, reply)>>]
    /\ now = 0
    /\ ticks = 0
    /\ media_sessions = EmptyMap
    /\ mconn = [c \in MediaConns |-> Fresh]
    /\ mout = NoOutput
    /\ disk = DiskDown
    /\ wire = WireIdle

\* the room, chat and invite requests of logged-in users
SpecStore == InitStore /\ [][NextStore]_vars

\* the requests that read a user's invites, among them the login of the user invited
NextExpiry ==
    \/ \E c \in Conns : Accept(c)
    \/ \E c \in Conns, u \in Users : ~Authenticated(c) /\ Login(c, u, "pw1")
    \/ \E c \in Conns, r \in Rooms, u \in Users : InviteRoom(c, r, u)
    \/ \E c \in Conns, u \in Users, k \in Kinds : u # conn[c].username /\ CreateChat(c, u, k)
    \/ \E c \in Conns, r \in Rooms : JoinRoom(c, r)
    \/ \E c \in Conns, x \in ChatIds : AcceptChat(c, x)
    \/ \E c \in Conns : ListInvites(c)
    \/ \E d \in StoreSteps : Tick(d)

\* A state of Spec: both users registered with "pw1", the first logged in on connection 1
\* at time 0, where it created the room; connection 2 not yet accepted.
InitExpiry ==
    /\ db = [default_data EXCEPT
               !.users = [u \in Users |-> [password |-> "pw1", created_at |-> 0]],
               !.rooms = [r \in Rooms |-> [members |-> <<UserOrder[1]>>, kind |-> "text",
                                           created_at |-> 0]],
               !.invites = [u \in Users |-> EmptyBucket],
               !.status = [u \in Users |-> [online |-> u = UserOrder[1], last_seen |-> 0]]]
    /\ sessions = (UserOrder[1] :> 1)
    /\ status = (UserOrder[1] :> [online |-> TRUE, last_seen |-> 0])
    /\ conn = [c \in Conns |->
                 IF c = 1 THEN [st |-> "open", username |-> UserOrder[1], wclosed |-> FALSE]
                 ELSE Fresh]
    /\ reply = Response("create_room", TRUE, Missing)
    /\ out = [by |-> 1, lines |-> <<Line(1, reply)>>]
    /\ now = 0
    /\ ticks = 0
    /\ media_sessions = EmptyMap
    /\ mconn = [c \in MediaConns |-> Fresh]
    /\ mout = NoOutput
    /\ disk = DiskDown
    /\ wire = WireIdle

\* the invites of a user who logs in while they are pending or expired
SpecExpiry == InitExpiry /\ [][NextExpiry]_vars

\* the media relay
NextMedia ==
    \/ \E mc \in MediaConns : MediaAccept(mc)
    \/ \E mc \in MediaConns : \E u \in {UserOrder[mc], UserOrder[1], Missing} : MediaLogin(mc, u)
    \/ \E mc \in MediaConns, a \in MediaActions, t \in MediaTargets \cup {NoTarget},
           p \in Payloads \cup {Missing} : MediaFrame(mc, a, t, p)
    \/ \E mc \in MediaConns : MediaFinally(mc)
    \/ \E mc \in MediaConns : MediaPeerLost(mc)

\* A state of Spec with three users: all registered and logged in at time 0, the i-th on
\* control connection i; the voice room created by the third, joined by the others or
\* by the first only; the chat of the first two accepted.
InitMedia ==
    /\ db \in {[default_data EXCEPT
                   !.users = [u \in MediaUsers |-> [password |-> "pw1", created_at |-> 0]],
                   !.rooms = ("dev" :> [members |-> members, kind |-> "voice",
                                        created_at |-> 0]),
                   !.status = [u \in MediaUsers |-> [online |-> TRUE, last_seen |-> 0]],
                   !.chats = (<<"alice", "bob">> :> [participants |-> <<"alice", "bob">>,
                                                     kind |-> "voice"]),
                   !.invites = [u \in MediaUsers |-> EmptyBucket]] :
                members \in {<<"carol", "alice", "bob">>, <<"carol", "alice">>}}
    /\ sessions = [u \in MediaUsers |-> Rank(UserOrder, u)]
    /\ status = [u \in MediaUsers |-> [online |-> TRUE, last_seen |-> 0]]
    /\ conn = [c \in MediaConns |-> [st |-> "open", username |-> UserOrder[c], wclosed |-> FALSE]]
    /\ reply = Response("accept_chat", TRUE, Missing)
    /\ out = [by |-> 2, lines |-> <<Line(2, reply)>>]
    /\ now = 0
    /\ ticks = 0
    /\ media_sessions = EmptyMap
    /\ mconn = [c \in MediaConns |-> Fresh]
    /\ mout = NoOutput
    /\ disk = DiskDown
    /\ wire = WireIdle

SpecMedia == InitMedia /\ [][NextMedia]_vars

\* the requests that change the members of rooms and chats, send_message to a target
\* whose history is shorter than MaxMessages, and list_messages
NextMessage ==
    \/ \E c \in Conns, r \in Rooms, k \in Kinds : CreateRoom(c, r, k)
    \/ \E c \in Conns, r \in Rooms, u \in Users : InviteRoom(c, r, u)
    \/ \E c \in Conns, r \in Rooms : JoinRoom(c, r)
    \/ \E c \in Conns, u \in Users, k \in Kinds : u # conn[c].username /\ CreateChat(c, u, k)
    \/ \E c \in Conns, x \in ChatIds : AcceptChat(c, x)
    \/ \E c \in Conns, r \in Rooms, text \in {"hi", Missing} :
          /\ Len(list_messages(db, room_key(r), NoLimit)) < MaxMessages
          /\ SendMessage(c, r, NoChat, "text", text, Missing, Missing)
    \/ \E c \in Conns, x \in ChatIds, text \in {"hi", Missing} :
          /\ Len(list_messages(db, chat_key(x), NoLimit)) < MaxMessages
          /\ SendMessage(c, Missing, x, "text", text, Missing, Missing)
    \/ \E c \in Conns, r \in Rooms, limit \in {NoLimit} \cup (0 .. MaxMessages) :
          ListMessages(c, r, NoChat, limit)
    \/ \E c \in Conns, x \in ChatIds, limit \in {NoLimit} \cup (0 .. MaxMessages) :
          ListMessages(c, Missing, x, limit)

\* the messages of logged-in users while rooms and chats are created and joined
SpecMessage == InitStore /\ [][NextMessage]_vars

\* users and rooms created, and created again, while the clock advances
NextCreate ==
    \/ \E c \in Conns, u \in MediaUsers, p \in Passwords : Register(c, u, p)
    \/ \E c \in Conns, r \in Rooms, k \in {"text", "voice"} : CreateRoom(c, r, k)
    \/ \E c \in Conns, r \in Rooms, u \in Users : InviteRoom(c, r, u)
    \/ \E c \in Conns, r \in Rooms : JoinRoom(c, r)
    \/ \E d \in StoreSteps : Tick(d)

\* registration and room creation by logged-in users
SpecCreate == InitStore /\ [][NextCreate]_vars

\* what a connection can send and undergo at one time: every request on a connection that
\* has not logged in, the requests that read and the two that push on one that has, lines
\* that are no request, the loss of a connection
NextGateway ==
    \/ \E c \in Conns : Accept(c)
    \/ \E c \in Conns, u \in UserArg, p \in Passwords \cup {Missing} :
          ~Authenticated(c) /\ Register(c, u, p)
    \/ \E c \in Conns, u \in UserArg, p \in Passwords \cup {Missing} :
          ~Authenticated(c) /\ Login(c, u, p)
    \/ \E c \in Conns : Heartbeat(c)
    \/ \E c \in Conns : ListUsers(c)
    \/ \E c \in Conns : ListRooms(c)
    \/ \E c \in Conns : ListChats(c)
    \/ \E c \in Conns : ListInvites(c)
    \/ \E c \in Conns, r \in Rooms, k \in Kinds : ~Authenticated(c) /\ CreateRoom(c, r, k)
    \/ \E c \in Conns, r \in Rooms : ~Authenticated(c) /\ JoinRoom(c, r)
    \/ \E c \in Conns, r \in Rooms, u \in Users : InviteRoom(c, r, u)
    \/ \E c \in Conns, u \in Users, k \in Kinds : u # conn[c].username /\ CreateChat(c, u, k)
    \/ \E c \in Conns, x \in ChatIds : ~Authenticated(c) /\ AcceptChat(c, x)
    \/ \E c \in Conns, r \in Rooms : ~Authenticated(c) /\ DeclineRoomInvite(c, r)
    \/ \E c \in Conns, x \in ChatIds : ~Authenticated(c) /\ DeclineChatInvite(c, x)
    \/ \E c \in Conns, r \in Rooms :
          ~Authenticated(c) /\ SendMessage(c, r, NoChat, "text", "hi", Missing, Missing)
    \/ \E c \in Conns, r \in Rooms : ListMessages(c, r, NoChat, NoLimit)
    \/ \E c \in Conns, r \in Rooms : ListMembers(c, r, NoChat)
    \/ \E c \in Conns : UnknownAction(c)
    \/ \E c \in Conns, line \in BadLines : BadLine(c, line)
    \/ \E c \in Conns : Logout(c)
    \/ \E c \in Conns : PeerLost(c)
    \/ \E c \in Conns : Finally(c)

\* the requests of one connection logged in and one that connects
SpecGateway == InitExpiry /\ [][NextGateway]_vars

\* the media logins next to everything that removes a control session: logout, the end
\* of a handler, a lost connection, the monitor
NextBind ==
    \/ \E c \in Conns : Accept(c)
    \/ \E c \in Conns, u \in Users : Login(c, u, "pw1")
    \/ \E c \in Conns : Logout(c)
    \/ \E c \in Conns : Finally(c)
    \/ \E c \in Conns : PeerLost(c)
    \/ MonitorSweep
    \/ \E d \in SessionSteps : Tick(d)
    \/ \E mc \in Conns : MediaAccept(mc)
    \/ \E mc \in Conns, u \in Users \cup {Missing} : MediaLogin(mc, u)
    \/ \E mc \in Conns : MediaFinally(mc)

SpecBind == InitExpiry /\ [][NextBind]_vars

\* the heartbeats of the users logged in, connections lost without a close, and the
\* monitor
NextPresence ==
    \/ \E c \in Conns : Accept(c)
    \/ \E c \in Conns, u \in Users : Login(c, u, "pw1")
    \/ \E c \in Conns : Heartbeat(c)
    \/ \E c \in Conns : PeerLost(c)
    \/ \E c \in Conns : Finally(c)
    \/ MonitorSweep
    \/ \E d \in SessionSteps : Tick(d)

\* monitor_sessions is a task of its own that loops for as long as the server runs: a
\* sweep that has stale users to set offline is not postponed for ever
SpecPresence == InitExpiry /\ [][NextPresence]_vars /\ WF_vars(MonitorSweep)

\* the period of the monitor, seconds
CHECK_INTERVAL == 10

\* one turn of monitor_sessions: the sleep of CHECK_INTERVAL, then the sweep at the time
\* reached, of the users stale then, who may be none
MonitorTick ==
    LET t == now + CHECK_INTERVAL
        stale == {u \in DOMAIN status : Stale(status, u, t)}
        r == sweep([sessions |-> sessions, status |-> status], stale, t)
    IN  /\ ticks < MaxTicks
        /\ now' = t
        /\ ticks' = ticks + 1
        /\ conn' = [c \in Conns |->
                      IF \E u \in stale : u \in DOMAIN sessions /\ sessions[u] = c
                      THEN [conn[c] EXCEPT !.wclosed = TRUE] ELSE conn[c]]
        /\ sessions' = r.sessions
        /\ status' = r.status
        /\ media_sessions' = [u \in DOMAIN media_sessions \ stale |-> media_sessions[u]]
        /\ mconn' = [c \in DOMAIN mconn |->
                       IF \E u \in stale : u \in DOMAIN media_sessions /\ media_sessions[u] = c
                       THEN [mconn[c] EXCEPT !.wclosed = TRUE] ELSE mconn[c]]
        /\ db' = [db EXCEPT !.status = [u \in DOMAIN db.status \cup stale |->
                                          IF u \in stale
                                          THEN [online |-> FALSE, last_seen |-> t]
                                          ELSE db.status[u]]]
        /\ UNCHANGED <<reply, out, mout, disk, wire>>

\* pushes to a user whose connection was lost without a close, between the turns of the
\* monitor
NextFailure ==
    \/ \E c \in Conns : Accept(c)
    \/ \E c \in Conns, u \in Users : ~Authenticated(c) /\ Login(c, u, "pw1")
    \/ \E c \in Conns : Heartbeat(c)
    \/ \E c \in Conns : PeerLost(c)
    \/ \E c \in Conns, r \in Rooms, u \in Users : u # conn[c].username /\ InviteRoom(c, r, u)
    \/ \E c \in Conns, u \in Users, k \in Kinds : u # conn[c].username /\ CreateChat(c, u, k)
    \/ \E d \in SessionSteps : Tick(d)
    \/ MonitorTick

SpecFailure == InitExpiry /\ [][NextFailure]_vars

\* the media relay while users log out or lose their control connection
NextRelay ==
    \/ \E mc \in MediaConns : MediaAccept(mc)
    \/ \E mc \in MediaConns : \E u \in {UserOrder[mc], UserOrder[1]} : MediaLogin(mc, u)
    \/ \E mc \in MediaConns, a \in MediaActions : MediaFrame(mc, a, room_key("dev"), "AAAA")
    \/ \E mc \in MediaConns : MediaFinally(mc)
    \/ \E c \in MediaConns : Logout(c)
    \/ \E c \in MediaConns : Finally(c)

SpecRelay == InitMedia /\ [][NextRelay]_vars

\* ------------------------------------------- sends on the control writers
\* lines followed per writer
MaxWrites == 2

\* send(writer, payload) by the task k on writer w, then the push to `next` if any:
\* writer.write puts the whole line in the writer's buffer; drain returns at once
\* unless the transport has paused the writer, and then the task waits in the drain
Send(wr, k, w, kind, next) ==
    LET written == [wr EXCEPT !.lines[w] = Append(@, [from |-> k, kind |-> kind])]
    IN  IF wr.paused[w]
        THEN [written EXCEPT !.task[k] = [at |-> "drain", on |-> w, next |-> next]]
        ELSE IF next = NoConn
        THEN [written EXCEPT !.task[k] = AtReadline]
        ELSE LET pushed == [written EXCEPT
                              !.lines[next] = Append(@, [from |-> k, kind |-> "invite_received"])]
             IN  IF wr.paused[next]
                 THEN [pushed EXCEPT !.task[k] = [at |-> "drain", on |-> next, next |-> NoConn]]
                 ELSE [pushed EXCEPT !.task[k] = AtReadline]

\* the handler k reads a request and sends its response; for an invite_room or
\* create_chat whose target has a session on writer `target` it then pushes
\* invite_received to that writer
Request(k, target) ==
    /\ Reading(k) /\ Authenticated(k)
    /\ wire.task[k].at = "readline"
    /\ target # NoConn => \E u \in DOMAIN sessions : u # conn[k].username /\ sessions[u] = target
    /\ Len(wire.lines[k]) < MaxWrites
    /\ target # NoConn => Len(wire.lines[target]) < MaxWrites
    /\ wire' = Send(wire, k, k, "response", target)
    /\ UNCHANGED <<db, sessions, status, conn, reply, out, now, ticks, mediavars, disk>>

\* the drain the task k waits for returns, the writer being resumed; the task goes on
\* with its push or to its readline
DrainReturns(k) ==
    /\ wire.task[k].at = "drain"
    /\ ~wire.paused[wire.task[k].on]
    /\ wire.task[k].next # NoConn => Len(wire.lines[wire.task[k].next]) < MaxWrites
    /\ wire' = IF wire.task[k].next = NoConn
               THEN [wire EXCEPT !.task[k] = AtReadline]
               ELSE Send(wire, k, wire.task[k].next, "invite_received", NoConn)
    /\ UNCHANGED <<db, sessions, status, conn, reply, out, now, ticks, mediavars, disk>>

\* the peer reads slowly: the transport's buffer passes its high-water mark and the
\* transport pauses the writer
PauseWriting(w) ==
    /\ ~wire.paused[w]
    /\ wire' = [wire EXCEPT !.paused[w] = TRUE]
    /\ UNCHANGED <<db, sessions, status, conn, reply, out, now, ticks, mediavars, disk>>

\* the buffer is back under its low-water mark
ResumeWriting(w) ==
    /\ wire.paused[w]
    /\ wire' = [wire EXCEPT !.paused[w] = FALSE]
    /\ UNCHANGED <<db, sessions, status, conn, reply, out, now, ticks, mediavars, disk>>

NextWire ==
    \/ \E k \in Conns, target \in Conns \cup {NoConn} : Request(k, target)
    \/ \E k \in Conns : DrainReturns(k)
    \/ \E w \in Conns : PauseWriting(w)
    \/ \E w \in Conns : ResumeWriting(w)

\* two users logged in, their peers reading fast or slowly
SpecWire == InitStore /\ [][NextWire]_vars

\* ------------------------------------------- Store calls on the database file
servervars == <<sessions, status, conn, reply, out, now, ticks, mediavars, wire>>

\* the mutating calls issued by the threads
StoreOps ==
    {[kind |-> "register_user", a |-> "alice", b |-> p] : p \in Passwords}
    \cup {[kind |-> "add_message", a |-> "alice", b |-> "hi"],
          [kind |-> "set_status", a |-> "alice", b |-> "online"],
          [kind |-> "set_status", a |-> "bob", b |-> "offline"]}

\* the body of a mutating call between _read and _write: the data to write, and whether
\* the call writes
apply(op, data, t) ==
    CASE op.kind = "register_user" ->
            LET r == register_user(data, op.a, op.b, t)
            IN  [data |-> r.data, write |-> r.ret]
      [] op.kind = "add_message" ->
            [data |-> add_message(data, room_key("dev"), op.a,
                                  [kind |-> "text", text |-> op.b], t),
             write |-> TRUE]
      [] op.kind = "set_status" ->
            [data |-> set_status(data, op.a, op.b = "online", t), write |-> TRUE]
      [] OTHER -> [data |-> default_data, write |-> TRUE]

\* the history of room "dev" in the data
History(data) ==
    IF room_key("dev") \in DOMAIN data.messages THEN data.messages[room_key("dev")] ELSE <<>>

\* Storage(config): _ensure_file writes the default data when the path does not exist;
\* the constructor runs on thread 1 before any call is served
Open ==
    /\ disk.up = "down"
    /\ disk' = IF disk.fs["db"].form = "absent"
               THEN [disk EXCEPT !.up = "init",
                                 !.th[1] = [pc |-> "open", op |-> InitOp, data |-> default_data]]
               ELSE [disk EXCEPT !.up = "up"]
    /\ UNCHANGED <<db, servervars>>

\* a mutating call enters the lock, reads the file and changes the data in memory; a read
\* that raises, or a call that returns without writing, leaves the lock at once
Begin(t, op) ==
    /\ disk.up = "up"
    /\ disk.th[t].pc = "idle"
    /\ CanAcquire(disk.lock)
    /\ op.kind = "add_message" => Len(History(db)) < MaxMessages
    /\ LET r == read(disk.fs["db"])
           a == apply(op, r.data, now)
       IN  disk' = IF r.ok /\ a.write
                   THEN [disk EXCEPT !.lock = t,
                                     !.th[t] = [pc |-> "open", op |-> op, data |-> a.data]]
                   ELSE disk
    /\ UNCHANGED <<db, servervars>>

\* _write: open(temp_path, "w") creates or empties the file written
OpenTemp(t) ==
    /\ disk.th[t].pc = "open"
    /\ disk' = [disk EXCEPT !.fs[write_path] = Truncated, !.th[t].pc = "dump"]
    /\ UNCHANGED <<db, servervars>>

\* _write: json.dump and the end of the with block; the text is complete in the file
Dump(t) ==
    /\ disk.th[t].pc = "dump"
    /\ disk' = [disk EXCEPT !.fs[write_path] = write_content(disk.th[t].data),
                            !.th[t].pc = "replace"]
    /\ UNCHANGED <<db, servervars>>

\* _write: os.replace(temp_path, path), after which the call returns and leaves the
\* lock; db is the data committed. Without the file to rename os.replace raises.
Replace(t) ==
    /\ disk.th[t].pc = "replace"
    /\ IF disk.fs[write_path].form = "absent"
       THEN /\ disk' = [disk EXCEPT !.th[t] = Idle,
                                    !.lock = IF @ = t THEN NoThread ELSE @]
            /\ UNCHANGED db
       ELSE /\ disk' = [disk EXCEPT
                          !.fs = [db |-> disk.fs[write_path],
                                  tmp |-> IF write_path = "tmp" THEN Absent ELSE @.tmp],
                          !.written = disk.fs[write_path],
                          !.up = "up",
                          !.th[t] = Idle,
                          !.lock = IF @ = t THEN NoThread ELSE @]
            /\ db' = normalize_data(disk.th[t].data)
    /\ UNCHANGED servervars

\* the process dies: its threads and its lock are gone, the files stay as they are
Crash ==
    /\ disk.up # "down"
    /\ disk' = [disk EXCEPT !.up = "down", !.lock = NoThread,
                            !.th = [t \in Threads |-> Idle], !.loaded = NotLoaded]
    /\ UNCHANGED <<db, servervars>>

\* a reading call (validate_login, list_users, get_statuses, ...): _read without the lock
Load ==
    /\ disk.up = "up"
    /\ disk' = [disk EXCEPT !.loaded = read(disk.fs["db"])]
    /\ UNCHANGED <<db, servervars>>

\* data that another program put in the file
Forged(data) ==
    [data EXCEPT !.users = put(@, "mallory", [password |-> "pw1", created_at |-> 0])]

TamperKinds == {"data", "checksum", "no_checksum", "empty_checksum"}

\* another program edits the database file and does not recompute the checksum
Tamper(kind) ==
    /\ disk.fs["db"].form = "wrapped"
    /\ \A t \in Threads : disk.th[t].pc = "idle"
    /\ disk' = [disk EXCEPT !.fs["db"] =
                  CASE kind = "data" -> [@ EXCEPT !.data = Forged(@)]
                    [] kind = "checksum" -> [@ EXCEPT !.checksum = BadSum]
                    [] kind = "no_checksum" -> [@ EXCEPT !.checksum = NoSum]
                    [] OTHER -> [@ EXCEPT !.checksum = EmptySum]]
    /\ UNCHANGED <<db, servervars>>

\* the Store on its file: construction, mutating calls of two threads, readers, crashes
NextDisk ==
    \/ Open
    \/ \E t \in Threads, op \in StoreOps : Begin(t, op)
    \/ \E t \in Threads : OpenTemp(t)
    \/ \E t \in Threads : Dump(t)
    \/ \E t \in Threads : Replace(t)
    \/ Load
    \/ Crash

SpecDisk == Init /\ [][NextDisk]_vars

\* the same with a file edited from outside
NextTamper ==
    \/ NextDisk
    \/ \E kind \in TamperKinds : Tamper(kind)

SpecTamper == Init /\ [][NextTamper]_vars

\* ------------------------------------------------------------ whole server
Next ==
    \/ NextSession \/ NextStore \/ NextMissing \/ NextExpiry
    \/ NextMedia \/ NextMessage \/ NextCreate \/ NextGateway \/ NextBind
    \/ NextPresence \/ NextTamper \/ NextFailure \/ NextWire
    \/ NextRelay

\* the whole server from a new database
Spec == Init /\ [][Next]_vars

C2_SessionImpliesOnline ==
    \A u \in DOMAIN sessions : u \in DOMAIN status /\ status[u].online

\* a user is in sessions after the monitor has swept another user offline and closed
\* that user's writer
C2_Witness ==
    /\ \E u \in DOMAIN sessions : status[u].online /\ status[u].last_seen > 0
    /\ \E v \in DOMAIN status : ~status[v].online
    /\ \E c \in Conns : conn[c].wclosed

\* ------------------------------------------------------------------- C3
\* no handler whose username is u has left its loop or had its writer closed without
\* having finished its finally block
CleanupPending(u) ==
    \E c \in Conns : conn[c].username = u /\ (conn[c].wclosed \/ conn[c].st = "exiting")

\* C3: in every state where no set_offline call for u is pending, status[u].online = true
\* implies that u is a key of sessions.
C3_OnlineImpliesSession ==
    \A u \in DOMAIN status :
        (status[u].online /\ ~CleanupPending(u)) => u \in DOMAIN sessions

\* ------------------------------------------------------------------- C4
\* an invite of the list names the target and is at most / more than 300 s old at t
LiveInvite(s, target, t) ==
    \E i \in DOMAIN s : s[i].target = target /\ t - s[i].invited_at <= 300
StaleInvite(s, target, t) ==
    \E i \in DOMAIN s : s[i].target = target /\ t - s[i].invited_at > 300

\* C4: join_room(room) by authenticated u makes u a member only if u holds a non-expired
\* invite for the room; with no invite and no membership the reply is invite_required,
\* with an invite older than 300 s (which the check evicts) it is invite_expired, and in
\* both error cases the rooms and their member lists are unchanged.
C4_JoinNeedsInvite ==
    [][ \A c \in Conns, r \in Rooms :
          (reply'.req = "join_room" /\ JoinRoom(c, r)) =>
              LET u == conn[c].username
                  held == Bucket(db, u).rooms
              IN  /\ (~room_has_member(db, r, u) /\ room_has_member(db', r, u))
                        => LiveInvite(held, r, now)
                  /\ (~HasEntry(held, r) /\ ~room_has_member(db, r, u))
                        => /\ reply' = Response("join_room", FALSE, "invite_required")
                           /\ db'.rooms = db.rooms
                  /\ StaleInvite(held, r, now)
                        => /\ reply' = Response("join_room", FALSE, "invite_expired")
                           /\ db'.rooms = db.rooms
                           /\ ~HasEntry(Bucket(db', u).rooms, r)
      ]_vars

\* a join_room was answered invite_expired: the room exists, some user is neither a
\* member of it nor holds an invite for it any more, and the clock is past the TTL
C4_Witness ==
    /\ reply = Response("join_room", FALSE, "invite_expired")
    /\ now > 300
    /\ \E r \in DOMAIN db.rooms, u \in Users :
          ~room_has_member(db, r, u) /\ ~HasEntry(Bucket(db, u).rooms, r)

\* ------------------------------------------------------------------- C5
\* C5: after a join_room answered ok (add_room_member returned true) the user holds no
\* pending invite for that room: none is in the user's room-invite list, so none is
\* returned by list_invites.
C5_JoinRemovesInvite ==
    [][ \A c \in Conns, r \in Rooms :
          (reply' = Response("join_room", TRUE, Missing) /\ JoinRoom(c, r))
              => ~InSeq(list_room_invites(db', conn[c].username), r)
      ]_vars

\* ------------------------------------------------------------------- C6
\* C6: accept_chat(chat) by authenticated u makes u a participant of the chat only when
\* u holds a non-expired invite for it.
C6_AcceptNeedsInvite ==
    [][ \A c \in Conns, x \in ChatIds :
          ( /\ reply'.req = "accept_chat"
            /\ AcceptChat(c, x)
            /\ ~chat_has_member(db, x, conn[c].username)
            /\ chat_has_member(db', x, conn[c].username) )
              => LiveInvite(Bucket(db, conn[c].username).chats, x, now)
      ]_vars

\* ------------------------------------------------------------------- C7
Sorted(s) == \A i, j \in DOMAIN s : i < j => Rank(UserOrder, s[i]) < Rank(UserOrder, s[j])

\* C7: after accept_chat_invite(u, chat) returned (true, false), u is a participant, the
\* participant list is sorted without duplicates, and u's chat-invite list holds no
\* invite for the chat.
C7_AcceptResult ==
    [][ \A c \in Conns, x \in ChatIds :
          (reply'.req = "accept_chat" /\ AcceptChat(c, x) /\ accept_chat_invite(db, conn[c].username, x, now).ret = <<TRUE, FALSE>>)
              => /\ chat_has_member(db', x, conn[c].username)
                 /\ Sorted(db'.chats[x].participants)
                 /\ ~HasEntry(Bucket(db', conn[c].username).chats, x)
      ]_vars

\* ------------------------------------------------------------------- C8
\* u becomes a participant of x in this step
Joins(u, x) == ~chat_has_member(db, x, u) /\ chat_has_member(db', x, u)

OwnAccept(u, x) ==
    \E c \in Conns :
        /\ conn[c].username = u
        /\ reply' = Response("accept_chat", TRUE, Missing)
        /\ AcceptChat(c, x)

OwnCreate(u, x) ==
    \E c \in Conns, t \in Users, k \in Kinds :
        conn[c].username = u /\ chat_id_for(u, t) = x /\ CreateChat(c, t, k)

\* C8 as stated: the user a chat's creation invited (the chat exists, the user is not a
\* participant) becomes a participant only by an accept_chat of that user's own that
\* is accepted.
C8_OnlyByAccept ==
    [][ \A u \in Users, x \in ChatIds :
          (x \in DOMAIN db.chats /\ Joins(u, x)) => OwnAccept(u, x)
      ]_vars

\* C8 amended: a user becomes a participant of a chat only by a request of that user's
\* own: an accept_chat that is accepted, or a create_chat naming the other user of the
\* chat.  No request of another user, create_chat included, makes the invitee a
\* participant.
C8_OnlyByOwnRequest ==
    [][ \A u \in Users, x \in ChatIds :
          Joins(u, x) => (OwnAccept(u, x) \/ OwnCreate(u, x))
      ]_vars

\* the invitee joined by a create_chat of its own: only create_chat appends without
\* sorting
C8_Witness ==
    \E x \in DOMAIN db.chats :
        Len(db.chats[x].participants) = 2 /\ ~Sorted(db.chats[x].participants)

\* ------------------------------------------------------------------- C9
NoDuplicates(s) == \A i, j \in DOMAIN s : s[i].target = s[j].target => i = j

Entries(s) == {s[i] : i \in DOMAIN s}

\* C10: right after cleanup_expired_invites(u) every invite of u is at most 300 s old
\* (one aged exactly 300 s is kept, one older is removed), the rooms / chats returned
\* are exactly the targets removed, and the invites of other users are untouched.
C10_CleanupKeepsFresh ==
    [][ \A c \in Conns :
          (reply'.req = "list_invites" /\ ListInvites(c)) =>
              LET u == conn[c].username
                  before == Bucket(db, u)
                  after == Bucket(db', u)
                  ret == cleanup_expired_invites(db, u, now).ret
              IN  /\ \A e \in Entries(after.rooms) : now - e.invited_at <= 300
                  /\ \A e \in Entries(after.chats) : now - e.invited_at <= 300
                  /\ \A e \in Entries(before.rooms) :
                        (now - e.invited_at <= 300) <=> e \in Entries(after.rooms)
                  /\ \A e \in Entries(before.chats) :
                        (now - e.invited_at <= 300) <=> e \in Entries(after.chats)
                  /\ Entries(ret.rooms) = Entries(Targets(before.rooms)) \ Entries(Targets(after.rooms))
                  /\ Entries(ret.chats) = Entries(Targets(before.chats)) \ Entries(Targets(after.chats))
                  /\ Len(ret.rooms) = Len(before.rooms) - Len(after.rooms)
                  /\ Len(ret.chats) = Len(before.chats) - Len(after.chats)
                  /\ \A v \in Users \ {u} : Bucket(db', v) = Bucket(db, v)
      ]_vars

\* a list_invites sweep reported an expiry and left an invite aged exactly 300 s
C10_Witness ==
    /\ reply.req = "list_invites"
    /\ reply.error = "invite_expired"
    /\ \E u \in Users :
          \/ \E e \in Entries(Bucket(db, u).rooms) : now - e.invited_at = 300
          \/ \E e \in Entries(Bucket(db, u).chats) : now - e.invited_at = 300

\* ------------------------------------------------------------------ C11
\* the last request handled was a join_room of c answered invite_expired: no request of
\* any connection was handled since
JustExpired(c) ==
    /\ out.by = c
    /\ reply = Response("join_room", FALSE, "invite_expired")

\* C11 as stated: when a room invite of u is older than 300 s and u sends join_room for
\* the room, the reply is invite_expired, and the next list_invites of u (no invite left
\* for the room) reports the room in expired.rooms and lists no pending invite for it.
C11_ExpiredThenReported ==
    [][ \A c \in Conns, r \in Rooms :
          LET held == Bucket(db, conn[c].username).rooms
          IN  /\ (reply'.req = "join_room" /\ JoinRoom(c, r) /\ StaleInvite(held, r, now))
                    => reply' = Response("join_room", FALSE, "invite_expired")
              /\ (JustExpired(c) /\ ~HasEntry(held, r)
                     /\ reply'.req = "list_invites" /\ ListInvites(c))
                    => /\ InSeq(reply'.data.expired.rooms, r)
                       /\ ~InSeq(reply'.data.invites.rooms, r)
      ]_vars

\* C11 amended: the join_room answered invite_expired is what removes the invite; the
\* list_invites of u that follows lists no pending invite for the room and does not
\* report the room in expired.rooms.
C11_ExpiredThenGone ==
    [][ \A c \in Conns, r \in Rooms :
          LET held == Bucket(db, conn[c].username).rooms
          IN  /\ (reply'.req = "join_room" /\ JoinRoom(c, r) /\ StaleInvite(held, r, now))
                    => /\ reply' = Response("join_room", FALSE, "invite_expired")
                       /\ ~HasEntry(Bucket(db', conn[c].username).rooms, r)
              /\ (JustExpired(c) /\ ~HasEntry(held, r)
                     /\ reply'.req = "list_invites" /\ ListInvites(c))
                    => /\ ~InSeq(reply'.data.expired.rooms, r)
                       /\ ~InSeq(reply'.data.invites.rooms, r)
                       /\ ~HasEntry(Bucket(db', conn[c].username).rooms, r)
      ]_vars

\* a join_room of c was just answered invite_expired past the TTL: the user of c holds no
\* room invite any more, is in no room although one exists, and c reads its next request
C11_Witness ==
    \E c \in Conns :
        /\ JustExpired(c)
        /\ Reading(c)
        /\ now > 300
        /\ Bucket(db, conn[c].username).rooms = <<>>
        /\ \E r \in DOMAIN db.rooms : ~room_has_member(db, r, conn[c].username)

\* ------------------------------------------------------------------ C12
\* C12: an invite older than 300 s is removed by the next access to its owner's invites:
\* the invites listing of the login response and of list_invites names no invite older
\* than 300 s; a repeated invite_room / create_chat for the target of such an invite does
\* not take it for pending (the owner then holds a fresh invite, none older than 300 s);
\* join_room and accept_chat on it are not answered ok.
C12_ExpiredNeverPending ==
    [][ /\ \A c \in Conns, u \in Users :
              (reply'.req = "login" /\ reply'.ok /\ Login(c, u, "pw1"))
                  => /\ \A r \in Rooms :
                           InSeq(reply'.data.invites.rooms, r)
                               => ~StaleInvite(Bucket(db, u).rooms, r, now)
                     /\ \A x \in ChatIds :
                           InSeq(reply'.data.invites.chats, x)
                               => ~StaleInvite(Bucket(db, u).chats, x, now)
        /\ \A c \in Conns :
              (reply'.req = "list_invites" /\ ListInvites(c))
                  => /\ \A r \in Rooms :
                           InSeq(reply'.data.invites.rooms, r)
                               => ~StaleInvite(Bucket(db, conn[c].username).rooms, r, now)
                     /\ \A x \in ChatIds :
                           InSeq(reply'.data.invites.chats, x)
                               => ~StaleInvite(Bucket(db, conn[c].username).chats, x, now)
        /\ \A c \in Conns, r \in Rooms, t \in Users :
              (reply'.req = "invite_room" /\ reply'.ok /\ InviteRoom(c, r, t)
                 /\ StaleInvite(Bucket(db, t).rooms, r, now))
                  => /\ ~StaleInvite(Bucket(db', t).rooms, r, now)
                     /\ LiveInvite(Bucket(db', t).rooms, r, now)
        /\ \A c \in Conns, t \in Users, k \in Kinds :
              (reply'.req = "create_chat" /\ reply'.ok /\ CreateChat(c, t, k)
                 /\ StaleInvite(Bucket(db, t).chats, chat_id_for(conn[c].username, t), now))
                  => /\ ~StaleInvite(Bucket(db', t).chats, chat_id_for(conn[c].username, t), now)
                     /\ LiveInvite(Bucket(db', t).chats, chat_id_for(conn[c].username, t), now)
        /\ \A c \in Conns, r \in Rooms :
              (reply'.req = "join_room" /\ JoinRoom(c, r)
                 /\ StaleInvite(Bucket(db, conn[c].username).rooms, r, now))
                  => ~reply'.ok
        /\ \A c \in Conns, x \in ChatIds :
              (reply'.req = "accept_chat" /\ AcceptChat(c, x)
                 /\ StaleInvite(Bucket(db, conn[c].username).chats, x, now))
                  => ~reply'.ok
      ]_vars

\* ------------------------------------------------------------------ C13
\* the members of a media target: the room's members, the chat's participants
TargetMembers(t) ==
    IF starts_with(t, "room")
    THEN {u \in MediaUsers : /\ room_of(t) \in DOMAIN db.rooms
                              /\ InSeq(db.rooms[room_of(t)].members, u)}
    ELSE IF starts_with(t, "chat")
    THEN {u \in MediaUsers : /\ chat_of(t) \in DOMAIN db.chats
                              /\ InSeq(db.chats[chat_of(t)].participants, u)}
    ELSE {}

\* what was written for user u in the step
WrittenFor(u) == SelectSeq(mout'.lines, LAMBDA l : l.user = u)

\* C13: when a media-authenticated user s sends a voice_chunk or screen_frame with a
\* payload to a target it is a member of, every member other than s whose bound media
\* writer takes the line is written exactly one frame {action, from: s, target, payload}
\* with the payload as sent, on that writer; nothing is written for s, nothing for a
\* user outside the members, nothing for a member without a media writer.
C13_RelayToCoMembers ==
    [][\A mc \in MediaConns, a \in MediaActions, t \in MediaTargets, p \in Payloads :
         ( /\ mout'.by = mc
           /\ mconn[mc].username # Missing
           /\ mconn[mc].username \in TargetMembers(t)
           /\ MediaFrame(mc, a, t, p) )
         => LET s == mconn[mc].username
            IN  \A u \in MediaUsers :
                  IF /\ u \in TargetMembers(t) \ {s}
                     /\ u \in DOMAIN media_sessions
                     /\ MWritable(mconn, media_sessions[u])
                  THEN WrittenFor(u) =
                         <<MediaLine(media_sessions[u], u, media_frame(a, s, t, p))>>
                  ELSE WrittenFor(u) = <<>>
      ]_vars

\* alice, bob and carol are members of the room and media-logged-in; alice's frame to the
\* room has just been written to bob and to carol
C13_Witness ==
    /\ Len(mout.lines) = 2
    /\ \A i \in {1, 2} : /\ mout.lines[i].frame.action \in MediaActions
                         /\ mout.lines[i].frame.from = "alice"
                         /\ mout.lines[i].frame.target = room_key("dev")
    /\ mout.lines[1].user = "bob" /\ mout.lines[2].user = "carol"
    /\ mconn[mout.by].username = "alice"
    /\ \A u \in MediaUsers : u \in DOMAIN media_sessions

\* ------------------------------------------------------------------ C14
\* the error a frame to target t from a non-member is answered with
NonMemberError(t) ==
    IF starts_with(t, "room") THEN "not_room_member"
    ELSE IF starts_with(t, "chat") THEN "not_chat_member"
    ELSE "unknown_target"

\* C14: a voice_chunk or screen_frame with target and payload whose media-authenticated
\* sender is, when the frame is handled, not a member of the named room or not a
\* participant of the named chat, or whose target is neither room: nor chat:, is written
\* to no recipient: the only line of the step is the sender's {ok: false, error} with
\* not_room_member / not_chat_member / unknown_target, and the media connection stays
\* open, bound as before.
C14_NonMemberNotRelayed ==
    [][\A mc \in MediaConns, a \in MediaActions, t \in MediaTargets, p \in Payloads :
         ( /\ mout'.by = mc
           /\ mconn[mc].username # Missing
           /\ mconn[mc].username \notin TargetMembers(t)
           /\ MediaFrame(mc, a, t, p) )
         => /\ mout'.lines = <<MediaLine(mc, mconn[mc].username,
                                         [req |-> a, ok |-> FALSE, error |-> NonMemberError(t),
                                          action |-> Missing, data |-> NoData])>>
            /\ mconn' = mconn
            /\ media_sessions' = media_sessions
            /\ MReading(mc)
      ]_vars

\* bob, who is not a member of the room, has sent a frame to it while alice, a member,
\* had a live media writer: bob was answered not_room_member and is still connected
C14_Witness ==
    /\ mout.by # NoConn
    /\ mconn[mout.by].st = "open"
    /\ mconn[mout.by].username = "bob"
    /\ "bob" \notin TargetMembers(room_key("dev"))
    /\ Len(mout.lines) = 1
    /\ mout.lines[1].to = mout.by
    /\ "error" \in DOMAIN mout.lines[1].frame
    /\ mout.lines[1].frame.req \in MediaActions
    /\ mout.lines[1].frame.error = "not_room_member"
    /\ "alice" \in DOMAIN media_sessions
    /\ MWritable(mconn, media_sessions["alice"])
    /\ media_sessions["alice"] # mout.by

\* ------------------------------------------------------------------ C15
\* the send for member v of the broadcast from s raises: v has a media writer and its
\* connection is lost
SendFails(s, t, v) ==
    /\ v \in TargetMembers(t) \ {s}
    /\ v \in DOMAIN media_sessions
    /\ ~MWritable(mconn, media_sessions[v])

\* C15: in a media broadcast in which the write to the media writer of a recipient v
\* fails, every other recipient u whose bound media writer takes the line is written the
\* frame exactly once, whether u comes before or after v in the member list.
C15_FailureDoesNotStopOthers ==
    [][\A mc \in MediaConns, a \in MediaActions, t \in MediaTargets, p \in Payloads :
         ( /\ mout'.by = mc
           /\ mconn[mc].username # Missing
           /\ mconn[mc].username \in TargetMembers(t)
           /\ \E v \in MediaUsers : SendFails(mconn[mc].username, t, v)
           /\ MediaFrame(mc, a, t, p) )
         => LET s == mconn[mc].username
            IN  \A v \in MediaUsers, u \in MediaUsers :
                  ( /\ SendFails(s, t, v)
                    /\ u \in TargetMembers(t) \ {s, v}
                    /\ u \in DOMAIN media_sessions
                    /\ MWritable(mconn, media_sessions[u]) )
                  => Len(SelectSeq(mout'.lines,
                                   LAMBDA l : /\ l.to = media_sessions[u]
                                              /\ l.frame = media_frame(a, s, t, p))) = 1
      ]_vars

\* alice's frame to the room of alice, bob and carol: the write to bob, who comes first
\* in the member list, failed, and carol, who comes after him, was written the frame
C15_Witness ==
    /\ Len(mout.lines) = 1
    /\ mout.lines[1].user = "carol"
    /\ "from" \in DOMAIN mout.lines[1].frame
    /\ mout.lines[1].frame.from = "alice"
    /\ mout.lines[1].frame.target = room_key("dev")
    /\ get_room_members(db, "dev") = <<"alice", "bob", "carol">>
    /\ "bob" \in DOMAIN media_sessions
    /\ mconn[media_sessions["bob"]].st = "broken"
    /\ mconn[mout.by].st = "closed"

\* ------------------------------------------------------------------ C16
\* C16: in an invite_room or create_chat answered ok whose target is another user with a session, the
\* inviter is written its single ok response, its connection stays open and
\* authenticated, its session stays registered and the invite is in the store, whether
\* or not the invite_received push could be written to the target's control writer.
C16_PushFailureNotSurfaced ==
    [][\A c \in Conns, u \in Users :
         ( /\ out'.by = c
           /\ reply'.req \in {"invite_room", "create_chat"}
           /\ reply'.ok
           /\ Authenticated(c)
           /\ u # conn[c].username
           /\ u \in DOMAIN sessions
           /\ \/ \E r \in Rooms : InviteRoom(c, r, u)
              \/ \E k \in Kinds : CreateChat(c, u, k) )
         => /\ SelectSeq(out'.lines, LAMBDA l : l.to = c) = <<Line(c, reply')>>
            /\ conn'[c] = conn[c]
            /\ conn[c].username \in DOMAIN sessions'
            /\ sessions'[conn[c].username] = sessions[conn[c].username]
            /\ \/ reply'.req = "invite_room" /\ db'.invites[u].rooms # <<>>
               \/ reply'.req = "create_chat" /\ db'.invites[u].chats # <<>>
      ]_vars

\* ------------------------------------------------------------------ C17
\* the response lines written to connection c in the step
ResponsesTo(c) ==
    SelectSeq(out'.lines, LAMBDA l : l.to = c /\ "ok" \in DOMAIN l.frame)

\* C17: a step in which the handler of a control connection reads a line writes exactly
\* one response line to that connection, the response of that line; the other lines of
\* the step are invite_received frames.
C17_OneResponsePerLine ==
    [][\A c \in Conns :
         (Reading(c) /\ out'.by = c /\ out' # out)
         => /\ ResponsesTo(c) = <<Line(c, reply')>>
            /\ \A i \in DOMAIN out'.lines :
                 \/ out'.lines[i] = Line(c, reply')
                 \/ out'.lines[i].frame.action = "invite_received"
      ]_vars

\* ------------------------------------------------------------------ C18
\* C18: on a control connection that has not logged in, a request object with one of the
\* protocol's actions other than register and login is answered {ok: false, error:
\* not_authenticated}, carrying no user, room, chat, invite or message data.
C18_UnauthenticatedRejected ==
    [][\A c \in Conns :
         ( /\ Reading(c)
           /\ ~Authenticated(c)
           /\ out'.by = c
           /\ out' # out
           /\ out'.lines # <<>>
           /\ reply'.req \notin {"register", "login", "invalid", "unknown"} )
         => reply' = Response(reply'.req, FALSE, "not_authenticated")
      ]_vars

\* ------------------------------------------------------------------ C19
\* the error codes of the claim's taxonomy
ErrorTaxonomy ==
    {"missing_credentials", "invalid_credentials", "already_online", "not_authenticated",
     "user_not_found", "missing_room", "missing_chat", "missing_target", "missing_username",
     "missing_parameters", "missing_text", "missing_attachment", "unknown_message_kind",
     "unknown_action", "unknown_target", "not_room_member", "not_chat_member",
     "invite_required", "invite_expired", "invalid_json", "missing_payload"}

\* C19: the last control response written has, when its ok is false, an error that is
\* one of the codes of the taxonomy and, when its ok is true, the action of the request
\* it answers.
C19_ErrorOrAction ==
    /\ ~reply.ok => reply.error \in ErrorTaxonomy
    /\ reply.ok => reply.action = reply.req

\* ------------------------------------------------------------------ C20
\* user u is a member of the room of a room key, a participant of the chat of a chat key
MemberOfTarget(data, target, u) ==
    IF Head(target) = "room"
    THEN target[2] \in DOMAIN data.rooms /\ InSeq(data.rooms[target[2]].members, u)
    ELSE Tail(target) \in DOMAIN data.chats /\ InSeq(data.chats[Tail(target)].participants, u)

\* the sender of every persisted message is a member of the message's target
SendersAreMembers ==
    \A target \in DOMAIN db.messages :
      \A i \in DOMAIN db.messages[target] :
        MemberOfTarget(db, target, db.messages[target][i].sender)

\* the rooms and chats a send_message can name
SendTargets == {room_key(r) : r \in Rooms} \cup {chat_key(x) : x \in ChatIds}

\* the handler of c handles a send_message of text to the target
SendsTo(c, target, text) ==
    IF Head(target) = "room"
    THEN SendMessage(c, target[2], NoChat, "text", text, Missing, Missing)
    ELSE SendMessage(c, Missing, Tail(target), "text", text, Missing, Missing)

\* C20 as stated, its last part: a user who holds a pending invite for a chat and sends
\* a message to that chat is answered not_chat_member.
C20_InviteeRejected ==
    [][\A c \in Conns, x \in ChatIds :
         ( /\ out'.by = c
           /\ reply'.req = "send_message"
           /\ Authenticated(c)
           /\ HasEntry(db.invites[conn[c].username].chats, x)
           /\ SendsTo(c, chat_key(x), "hi") )
         => reply' = Response("send_message", FALSE, "not_chat_member")
      ]_vars

\* C20, amended: the histories are changed only by a send_message whose authenticated
\* sender is, in the state it is handled in, a member of the room or a participant of
\* the chat; the sender of every persisted message is a member of its target; and a
\* send_message to a chat by a user who is not among its participants (an invitee who
\* has neither accepted nor sent create_chat for the chat itself) is answered
\* not_chat_member and appends nothing.
C20_OnlyMembersAppend ==
    /\ []SendersAreMembers
    /\ [][ /\ db'.messages # db.messages => reply'.req = "send_message" /\ reply'.ok
           /\ \A c \in Conns, target \in SendTargets, text \in {"hi", Missing} :
                ( /\ out'.by = c
                  /\ reply'.req = "send_message"
                  /\ Authenticated(c)
                  /\ SendsTo(c, target, text) )
                => IF MemberOfTarget(db, target, conn[c].username)
                   THEN reply'.ok =>
                          db'.messages = put(db.messages, target,
                                             Append(list_messages(db, target, NoLimit),
                                                    [sender |-> conn[c].username, ts |-> now,
                                                     kind |-> "text", text |-> text]))
                   ELSE /\ db' = db
                        /\ reply' = Response("send_message", FALSE,
                                             IF Head(target) = "room" THEN "not_room_member"
                                             ELSE "not_chat_member")
         ]_vars

\* bob, invited to the chat and not a participant, has just been refused; alice, its
\* participant, has a message in its history
C20_Witness ==
    /\ reply = Response("send_message", FALSE, "not_chat_member")
    /\ out.by = 2
    /\ conn[2].username = "bob"
    /\ <<"alice", "bob">> \in DOMAIN db.chats
    /\ ~InSeq(db.chats[<<"alice", "bob">>].participants, "bob")
    /\ HasEntry(db.invites["bob"].chats, <<"alice", "bob">>)
    /\ chat_key(<<"alice", "bob">>) \in DOMAIN db.messages
    /\ db.messages[chat_key(<<"alice", "bob">>)] # <<>>

\* ------------------------------------------------------------------ C21
\* sequence a is a prefix of sequence b
IsPrefix(a, b) == Len(a) <= Len(b) /\ SubSeq(b, 1, Len(a)) = a

\* the handler of c handles a list_messages of the target with the limit
ListsFrom(c, target, limit) ==
    IF Head(target) = "room"
    THEN ListMessages(c, target[2], NoChat, limit)
    ELSE ListMessages(c, Missing, Tail(target), limit)

\* C21: across every step the history of every target keeps what it held as a prefix;
\* it changes only by a successful send_message for the target, which puts the
\* sender's message at its end, whichever connection sends; and a list_messages with
\* no limit returns the whole history as it then is. So of two reads of a target the
\* earlier is a prefix of the later.
C21_HistoryAppendOnly ==
    [][\A target \in SendTargets :
         LET before == list_messages(db, target, NoLimit)
             after == list_messages(db', target, NoLimit)
         IN  /\ IsPrefix(before, after)
             /\ after # before =>
                  /\ reply'.req = "send_message" /\ reply'.ok
                  /\ Len(after) = Len(before) + 1
                  /\ after[Len(after)].sender = conn[out'.by].username
             /\ \A c \in Conns :
                  ( /\ out'.by = c /\ reply'.req = "send_message" /\ reply'.ok
                    /\ SendsTo(c, target, "hi") )
                  => after = Append(before, [sender |-> conn[c].username, ts |-> now,
                                             kind |-> "text", text |-> "hi"])
             /\ \A c \in Conns :
                  ( /\ out'.by = c /\ reply'.req = "list_messages" /\ reply'.ok
                    /\ ListsFrom(c, target, NoLimit) )
                  => reply'.data.messages = before
      ]_vars

\* bob has read the history of the chat: a message of alice and then one of his own,
\* sent on two connections
C21_Witness ==
    /\ reply.req = "list_messages" /\ reply.ok
    /\ out.by = 2
    /\ Len(reply.data.messages) = 2
    /\ reply.data.messages[1].sender = "alice"
    /\ reply.data.messages[2].sender = "bob"
    /\ reply.data.messages = list_messages(db, chat_key(<<"alice", "bob">>), NoLimit)

\* ------------------------------------------------------------------ C22
\* the last k entries of a sequence, all of it when it has fewer
LastOf(s, k) == IF k >= Len(s) THEN s ELSE SubSeq(s, Len(s) - k + 1, Len(s))

\* C22: a list_messages of a target with limit k >= 0 returns the last min(k, n) of the
\* n messages of the target in insertion order, none for k = 0; with no limit it
\* returns all n.
C22_LastMessages ==
    [][\A c \in Conns, target \in SendTargets, k \in {NoLimit} \cup (0 .. MaxMessages) :
         ( /\ out'.by = c /\ reply'.req = "list_messages" /\ reply'.ok
           /\ ListsFrom(c, target, k) )
         => reply'.data.messages =
              IF k = NoLimit THEN list_messages(db, target, NoLimit)
              ELSE LastOf(list_messages(db, target, NoLimit), k)
      ]_vars

\* ------------------------------------------------------------------ C23
\* the kinds a room is created with in SpecCreate
RoomKinds == {"text", "voice"}

\* C23: a create_room for a name that is taken is answered false and leaves the store,
\* hence the room's members, kind and created_at, unchanged; one answered true leaves
\* the room with the member list [u] and the kind asked for, room_has_member(r, u)
\* true and {room: r, kind} in list_rooms_for_user(u).
C23_CreateRoomOnce ==
    [][\A c \in Conns, r \in Rooms, k \in RoomKinds :
         ( /\ out'.by = c
           /\ reply'.req = "create_room"
           /\ Authenticated(c)
           /\ CreateRoom(c, r, k) )
         => LET u == conn[c].username
                listed == list_rooms_for_user(db', u)
            IN  IF r \in DOMAIN db.rooms
                THEN ~reply'.ok /\ db' = db
                ELSE /\ reply'.ok
                     /\ db'.rooms[r].members = <<u>>
                     /\ db'.rooms[r].kind = k
                     /\ room_has_member(db', r, u)
                     /\ \E i \in DOMAIN listed : listed[i] = [room |-> r, kind |-> k]
      ]_vars

\* a create_room for the room alice created earlier and bob joined has just been answered
\* false
C23_Witness ==
    /\ reply.req = "create_room" /\ ~reply.ok /\ reply.error = Missing
    /\ "dev" \in DOMAIN db.rooms
    /\ db.rooms["dev"].members = <<"alice", "bob">>
    /\ db.rooms["dev"].created_at < now

\* ------------------------------------------------------------------ C24
\* no username twice in a member list
Distinct(s) == \A i, j \in DOMAIN s : s[i] = s[j] => i = j

\* every room has a member and no member twice
RoomsWellFormed ==
    \A r \in DOMAIN db.rooms :
        db.rooms[r].members # <<>> /\ Distinct(db.rooms[r].members)

\* C24: in every reachable state every room's member list is non-empty and holds no
\* username twice; a room appears with its creator as its only member; and across every
\* step every room stays and its member list keeps what it held as a prefix, so the
\* creator stays first and the member set only grows.
C24_MembersOnlyGrow ==
    /\ []RoomsWellFormed
    /\ [][ /\ \A r \in DOMAIN db.rooms :
                /\ r \in DOMAIN db'.rooms
                /\ IsPrefix(db.rooms[r].members, db'.rooms[r].members)
           /\ \A r \in DOMAIN db'.rooms \ DOMAIN db.rooms :
                /\ reply'.req = "create_room" /\ reply'.ok
                /\ db'.rooms[r].members = <<conn[out'.by].username>>
         ]_vars

\* the room alice created has been joined by bob, and a member has then sent join_room
\* again
C24_Witness ==
    /\ "dev" \in DOMAIN db.rooms
    /\ db.rooms["dev"].members = <<"alice", "bob">>
    /\ reply.req = "join_room" /\ reply.ok
    /\ db.invites["bob"].rooms = <<>>
    /\ db.invites["alice"].rooms = <<>>
    /\ out.by = 1

\* C25: register_user(u, pw) returns true exactly when u was not registered, and then the
\* store holds the user with that password and the time of registration, an empty invites
\* bucket and an offline status for u; for a registered u it returns false and leaves the
\* stored password and created_at of u as they were, so validate_login accepts the same
\* password as before the call and no other
C25_RegisterOnce ==
    [][\A c \in Conns, u \in MediaUsers, p \in Passwords :
         Register(c, u, p) =>
           IF u \in DOMAIN db.users
           THEN /\ ~reply'.ok
                /\ db'.users[u] = db.users[u]
                /\ \A q \in Passwords :
                     validate_login(db', u, q) <=> q = db.users[u].password
           ELSE /\ reply'.ok
                /\ db'.users[u] = [password |-> p, created_at |-> now]
                /\ db'.invites[u] = EmptyBucket
                /\ db'.status[u] = [online |-> FALSE, last_seen |-> now]
                /\ \A q \in Passwords : validate_login(db', u, q) <=> q = p]_vars

\* a user registered after the clock was advanced is refused a later registration
C25_Witness ==
    /\ "carol" \in DOMAIN db.users
    /\ db.users["carol"] = [password |-> "pw2", created_at |-> 1]
    /\ db.status["carol"] = [online |-> FALSE, last_seen |-> 1]
    /\ now > 1
    /\ reply = Response("register", FALSE, Missing)

\* ------------------------------------------------------------------- C29
MediaBound == DOMAIN media_sessions \subseteq DOMAIN sessions

\* the users whose media binding is new or moved to another writer in the step
NewlyBound ==
    {u \in DOMAIN media_sessions' :
        u \notin DOMAIN media_sessions \/ media_sessions'[u] # media_sessions[u]}

\* the step answered a media_login with not_authenticated
MediaLoginRefused ==
    /\ mout' # mout
    /\ Len(mout'.lines) = 1
    /\ mout'.lines[1].frame = Response("media_login", FALSE, "not_authenticated")

\* C29: every key of media_sessions is a key of sessions; a step binds a media writer
\* only for a user with a registered control session, and it is the media_login answered
\* ok on that writer; a media_login answered not_authenticated binds nothing and leaves
\* every media connection as it was; a step that removes a user's control session leaves
\* the user without media session, the writer that was bound closed
C29_MediaBoundToSession ==
    /\ []MediaBound
    /\ [][ /\ \A u \in NewlyBound :
                /\ u \in DOMAIN sessions
                /\ mout'.by = media_sessions'[u]
                /\ mout'.lines = <<MediaLine(mout'.by, u, Response("media_login", TRUE, Missing))>>
           /\ MediaLoginRefused =>
                /\ media_sessions' = media_sessions
                /\ mconn' = mconn
                /\ mconn'[mout'.by].st = "open" /\ ~mconn'[mout'.by].wclosed
           /\ \A u \in DOMAIN sessions \ DOMAIN sessions' :
                /\ u \notin DOMAIN media_sessions'
                /\ u \in DOMAIN media_sessions => mconn'[media_sessions[u]].wclosed ]_vars

\* the monitor or the end of the control handler removed alice's session while her media
\* writer was bound: the media writer is closed before its handler has left, and a
\* media_login for her on another media connection is refused
C29_Witness ==
    /\ "alice" \notin DOMAIN sessions
    /\ "bob" \in DOMAIN sessions
    /\ \E mc \in MediaConns : /\ mconn[mc] = [st |-> "open", username |-> "alice", wclosed |-> TRUE]
                              /\ mout.by # mc
    /\ mout.by # NoConn
    /\ mout.lines = <<MediaLine(mout.by, mconn[mout.by].username,
                                Response("media_login", FALSE, "not_authenticated"))>>
    /\ media_sessions = EmptyMap

\* ------------------------------------------------------------------- C30
\* u is offline everywhere: no session, offline in memory and in the store
Reclaimed(u) ==
    /\ u \notin DOMAIN sessions
    /\ u \in DOMAIN status /\ ~status[u].online
    /\ u \in DOMAIN db.status /\ ~db.status[u].online

\* last_seen of u was refreshed: u is online and within the timeout
Refreshed(u) == u \in DOMAIN status /\ status[u].online /\ ~Stale(status, u, now)

\* under a fair monitor a user who is online with last_seen more than HEARTBEAT_TIMEOUT
\* ago is set offline everywhere, unless a heartbeat or a login refreshes last_seen first
StaleReclaimed ==
    \A u \in Users :
        (u \in DOMAIN status /\ Stale(status, u, now)) ~> (Reclaimed(u) \/ Refreshed(u))

\* a sweep removes the session of every stale user, closes its control writer and stores
\* the user offline at the time of the sweep, in memory and in the store
SweepReclaims ==
    MonitorSweep =>
        \A u \in DOMAIN status :
            Stale(status, u, now) =>
                /\ u \notin DOMAIN sessions'
                /\ u \in DOMAIN sessions => conn'[sessions[u]].wclosed
                /\ status'[u] = [online |-> FALSE, last_seen |-> now]
                /\ db'.status[u] = [online |-> FALSE, last_seen |-> now]

\* a sweep leaves the session of a user within the timeout registered, its writer open
SweepSpares ==
    MonitorSweep =>
        \A v \in DOMAIN sessions :
            ~Stale(status, v, now) =>
                /\ v \in DOMAIN sessions' /\ sessions'[v] = sessions[v]
                /\ conn'[sessions[v]] = conn[sessions[v]]
                /\ status'[v] = status[v]

\* C30: under fair scheduling of the monitor, a user online whose last_seen is no longer
\* refreshed is, at the first sweep with now - last_seen > HEARTBEAT_TIMEOUT, removed from
\* sessions, the control writer closed, the status offline in memory and in the store;
\* the monitor never closes a session whose last_seen is within HEARTBEAT_TIMEOUT
C30_MonitorReclaims ==
    /\ StaleReclaimed
    /\ [][SweepReclaims /\ SweepSpares]_vars

\* the part of C30 on the stale users alone
C30_StaleOnly == StaleReclaimed /\ [][SweepReclaims]_vars

\* ------------------------------------------------------------------- C26
\* the database file, once there is one, is the whole of the last data committed under
\* its own checksum, and a read of it returns that data
FileCommitted ==
    disk.fs["db"].form # "absent" =>
        /\ disk.fs["db"] = Wrapped(db, checksum_payload(db))
        /\ read(disk.fs["db"]) = [ok |-> TRUE, error |-> Missing, data |-> db]

\* some thread is inside _write: the file written is open or complete and not yet renamed
Writing == \E t \in Threads : disk.th[t].pc \in {"open", "dump", "replace"}

\* C26: a crash at any point of a store write (before, during or after the write of the
\* temporary file, before the rename) leaves the database file as it was, the complete
\* state committed before, which the reopened store reads with its integrity check
\* passed; a reader never gets a partially written file
C26_CrashKeepsCommitted ==
    /\ []FileCommitted
    /\ [][ /\ (Crash /\ Writing) => (disk'.fs["db"] = disk.fs["db"] /\ db' = db)
           /\ Open => (disk.fs["db"].form # "absent" => disk'.up = "up" /\ db' = db)
           /\ Load => disk'.loaded = [ok |-> TRUE, error |-> Missing, data |-> db] ]_vars

\* the process crashed with the temporary file cut short, was started again and a reader
\* got the data committed before the crash, which holds a user and a message
C26_Witness ==
    /\ disk.up = "up"
    /\ \A t \in Threads : disk.th[t].pc = "idle"
    /\ disk.fs["tmp"] = Truncated
    /\ "alice" \in DOMAIN db.users
    /\ Len(History(db)) = 1
    /\ disk.loaded = [ok |-> TRUE, error |-> Missing, data |-> db]

\* ------------------------------------------------------------------- C28
\* the threads between entering a mutating call and the end of its write
InCall == {t \in Threads : disk.th[t].pc # "idle"}

OneWriter == Cardinality(InCall) <= 1

\* C28: a mutating call runs from its read to its write under the one lock, so at most
\* one thread is inside such a call and every write commits the call applied to the data
\* committed just before it: the data persisted is that of the calls run one after the
\* other in the order of their commits, none lost; a reader without the lock gets the
\* data committed, that of before or after a whole call
C28_Serializable ==
    /\ []OneWriter
    /\ [][ /\ \A t \in Threads :
                Replace(t) => db' = normalize_data(apply(disk.th[t].op, db, now).data)
           /\ Load => (disk'.loaded.ok /\ disk'.loaded.data = db) ]_vars

\* thread 1 holds the lock with a message about to be committed after a registration
\* and a status were; the reader that ran meanwhile got the data without the message
C28_Witness ==
    /\ disk.lock = 1
    /\ disk.th[1].pc = "replace"
    /\ disk.th[1].op.kind = "add_message"
    /\ disk.fs["tmp"] = write_content(disk.th[1].data)
    /\ "alice" \in DOMAIN db.users
    /\ "bob" \in DOMAIN db.status
    /\ History(db) = <<>>
    /\ disk.th[1].data # db
    /\ disk.loaded = [ok |-> TRUE, error |-> Missing, data |-> db]

\* ------------------------------------------------------------------- C27
\* a file the Store wrote holds the checksum of its own data
CarriesChecksum(file) ==
    file.form = "wrapped" => file.checksum = checksum_payload(file.data)

\* the database file is not as the Store wrote it and its checksum field is not the
\* checksum of its data
Modified ==
    /\ disk.fs["db"] # disk.written
    /\ disk.fs["db"].checksum # checksum_payload(disk.fs["db"].data)

\* C27: every file written by the Store carries the checksum of its own data, and after
\* a modification of the database file that does not recompute the checksum (the data
\* changed, the checksum changed, the checksum field removed or emptied) the next load
\* fails and returns no data
C27_TamperDetected ==
    /\ [](CarriesChecksum(disk.written) /\ CarriesChecksum(disk.fs["tmp"]))
    /\ [][(Load /\ Modified) => ~disk'.loaded.ok]_vars

\* the part of C27 on a checksum field that still holds a digest
C27_DigestVerified ==
    /\ [](CarriesChecksum(disk.written) /\ CarriesChecksum(disk.fs["tmp"]))
    /\ [][(Load /\ Modified /\ Truthy(disk.fs["db"].checksum)) =>
             disk'.loaded = ReadError("ValueError")]_vars

\* ------------------------------------------------------------------- C31
\* C31: a join_room sent by a user who is a member of the room is answered ok true and
\* leaves the rooms and their members unchanged, whatever invites for the room the user
\* holds and whenever it is sent
C31_MemberJoinSucceeds ==
    [][ \A c \in Conns, r \in Rooms :
          (JoinRoom(c, r) /\ Authenticated(c) /\ room_has_member(db, r, conn[c].username))
             => /\ reply' = Response("join_room", TRUE, Missing)
                /\ db'.rooms = db.rooms ]_vars

\* ------------------------------------------------------------------- C32
BusinessErrors ==
    {"not_authenticated", "missing_credentials", "missing_room", "missing_chat",
     "missing_target", "missing_username", "missing_parameters", "missing_text",
     "missing_attachment", "user_not_found", "not_room_member", "not_chat_member",
     "invite_required", "invalid_credentials", "already_online", "unknown_message_kind",
     "unknown_action"}

\* the step is the handler of out'.by answering the request it read with response reply'
Answered ==
    /\ out'.by \in Conns
    /\ out'.lines # <<>> /\ out'.lines[1] = Line(out'.by, reply')
    /\ \A c \in Conns : ~Accept(c) /\ ~PeerLost(c) /\ ~Finally(c)
    /\ now' = now /\ ~MonitorSweep

PushFailed(u) ==
    /\ u \in DOMAIN sessions
    /\ ~Writable(sessions[u])
    /\ out.by \in Conns /\ out.by # sessions[u]
    /\ conn[out.by].st = "closed"
    /\ reply.ok /\ reply.req \in {"invite_room", "create_chat"}
    /\ out.lines = <<Line(out.by, reply)>>

\* C33: after a write to the writer of a peer failed, the turn of the monitor that
\* follows removes the peer from sessions and sets its status offline
C33_FailedPeerOffline ==
    [][ MonitorTick =>
          \A u \in Users :
              PushFailed(u) => (u \notin DOMAIN sessions' /\ ~status'[u].online) ]_vars

\* ------------------------------------------------------------------- C34
\* the tasks inside a send on writer w: the line written, the drain not yet returned
Outstanding(w) == {k \in Conns : wire.task[k].at = "drain" /\ wire.task[k].on = w}

\* C34: at any time at most one send, a write followed by its drain, is outstanding on a
\* writer, whether the sends are the responses of the connection's own handler or the
\* pushes of other handlers
C34_OneSendPerWriter == \A w \in Conns : Cardinality(Outstanding(w)) <= 1

\* ------------------------------------------------------------------- C35
\* the media connection mc has a frame relayed in this step: a line carrying a frame
\* with from = its handler's username is written to a recipient
Relays(mc) ==
    /\ mconn[mc].username # Missing
    /\ \E a \in MediaActions, t \in MediaTargets, p \in Payloads :
          /\ MediaFrame(mc, a, t, p)
          /\ \E i \in DOMAIN mout'.lines :
                mout'.lines[i].frame = media_frame(a, mconn[mc].username, t, p)

\* C35: a media connection has frames relayed with from = u only while u has a registered
\* control session, whether or not its binding was replaced by a newer media_login
C35_RelayOnlyWithSession ==
    [][ \A mc \in MediaConns : Relays(mc) => mconn[mc].username \in DOMAIN sessions ]_vars

\* ------------------------------------------------------------------- C36
\* C36: an open control connection whose handler holds the username u is the connection
\* registered as sessions[u], and no connection is registered under two usernames
C36_HandlerOwnsSession ==
    /\ \A c \in Conns :
          (Reading(c) /\ Authenticated(c))
             => /\ conn[c].username \in DOMAIN sessions
                /\ sessions[conn[c].username] = c
    /\ \A u \in DOMAIN sessions, v \in DOMAIN sessions : sessions[u] = sessions[v] => u = v

\* ------------------------------------------------------------------- C37
\* a frame of the media connection mc for room dev is broadcast and the send to one of
\* the recipients raises
BroadcastFails(mc) ==
    LET username == mconn[mc].username
    IN  /\ username # Missing
        /\ room_has_member(db, "dev", username)
        /\ broadcast_media(media_sessions, mconn, get_room_members(db, "dev"),
                           media_frame("voice_chunk", username, room_key("dev"), "AAAA"),
                           username).failed

\* C37: a write failure to a recipient during broadcast_media leaves the sender's media
\* connection open, its handler reading and its media_sessions binding in place
C37_SenderSurvivesFailure ==
    [][ \A mc \in MediaConns :
          (MediaFrame(mc, "voice_chunk", room_key("dev"), "AAAA") /\ BroadcastFails(mc))
             => /\ mconn'[mc].st = "open" /\ ~mconn'[mc].wclosed
                /\ mconn'[mc].username = mconn[mc].username
                /\ media_sessions' = media_sessions ]_vars

\* ------------------------------------------------------------------- C38
\* the binding of the username held by the handler of mc now belongs to a newer media
\* connection
Replaced(mc) ==
    /\ mconn[mc].username \in DOMAIN media_sessions
    /\ media_sessions[mconn[mc].username] # mc

\* C38: when a media connection closes, media_sessions[u] is removed only if it still
\* holds that connection's own writer; the binding of a newer media connection stays
C38_CloseKeepsNewerBinding ==
    [][ \A mc \in MediaConns :
          (MediaFinally(mc) /\ mconn[mc].username # Missing /\ Replaced(mc))
             => media_sessions' = media_sessions ]_vars

\* ------------------------------------------------------------------- C39
\* the clients are numbered as their connections: client i holds control connection i,
\* on which it presented the password of the i-th user, and opens media connection i
ClientOf(mc) == mc

\* the media_login of mc for u is accepted in this step
MediaLoginAccepted(mc, u) ==
    /\ MediaLogin(mc, u)
    /\ mout' = [by |-> mc, lines |-> <<MediaLine(mc, u, Response("media_login", TRUE, Missing))>>]
    /\ u \in DOMAIN media_sessions' /\ media_sessions'[u] = mc

\* C39: a media_login for u is accepted only on a media connection opened by the client
\* that holds the authenticated control session of u
C39_MediaLoginByOwner ==
    [][ \A mc \in MediaConns, u \in MediaUsers :
          MediaLoginAccepted(mc, u)
             => /\ u \in DOMAIN sessions /\ sessions[u] = ClientOf(mc)
                /\ conn[ClientOf(mc)].username = u ]_vars

\* ------------------------------------------------------------------- C40
\* what the join_room branch answers to username for room, d seconds from now: the invite
\* is not reported expired, the user holds an invite or is a member, add_room_member
\* returns true
JoinSucceeds(username, room, d) ==
    LET h == has_room_invite(db, username, room, now + d)
    IN  /\ ~h.ret[2]
        /\ h.ret[1] \/ room_has_member(h.data, room, username)
        /\ add_room_member(h.data, room, username, now + d).ret

\* C40: whenever invite_room answers ok true for (room, target), a join_room of the target
\* succeeds at once and up to 300 s after the response, whatever invite the target held
\* for the room before
C40_InviteOkIsUsable ==
    [][ \A c \in Conns, r \in Rooms, u \in Users :
          (InviteRoom(c, r, u) /\ reply' = Response("invite_room", TRUE, Missing))
             => /\ JoinSucceeds(u, r, 0)'
                /\ JoinSucceeds(u, r, INVITE_TTL)' ]_vars

====
